---- MODULE Spec2Model ----
(***************************************************************************)
(* The Little Minion Computer (lminc), in the build with the "extended"    *)
(* feature enabled: the fetch-execute virtual machine of lib/computer.rs   *)
(* over the three digit numbers of lib/num3.rs, the binary codec of        *)
(* lib/file and the test harness of lib/runner/tester.                     *)
(***************************************************************************)
EXTENDS Integers, Sequences, FiniteSets, TLC

(* ------------------------------------------------------------------ *)
(* Program constants                                                   *)
(* ------------------------------------------------------------------ *)

\* pub type Memory = [ThreeDigitNumber; 100]
MemLen == 100

\* ThreeDigitNumber: 0..=999, arithmetic is taken % 1000
Radix == 1000

\* instruction / 100 and instruction % 100 in Computer::step
OpDiv == 100

\* pub const MAX_FILE_SIZE: usize = 125
MAX_FILE_SIZE == 125

\* a byte of the buffer: u8
ByteRange == 256

\* the mask of load_from_buffer: % 0b100_0000_0000
TenBits == 1024

\* the largest three digit number, `memory[address] > 999`
MaxNumber == 999

(* ------------------------------------------------------------------ *)
(* Bounds of the model                                                 *)
(* ------------------------------------------------------------------ *)

\* number of leading memory cells that hold a freely chosen word
ProgLen == 2

\* number of fetch-execute cycles performed over one behaviour
MaxSteps == 3

\* number of leading memory cells of an image given to the codec that
\* hold a freely chosen number
CodecLen == 5

\* length of the freely chosen part of a byte buffer given to the codec
BufLen == 3

\* the numbers a cell of an image given to the codec is drawn from
\* pieces a line of assembly is put together from
LineLen == 3

\* lines in a text given to parse_text or to an assembler
TextLen == 3

\* lines behind the filled part of a long text
TailLen == 2

\* the instructions a Parser holds (parser/mod.rs: `[MaybeUninit<..>; 100]`)
Capacity == 100

\* the words an instruction line may have
WordsMax == 3

\* u16::MAX
U16Max == 65535

\* words of the programs given to the test harness
TestProgLen == 2

\* largest max_cycles of a Test
MaxCycles == 3

CodecValues == {0, 1, 999}

\* the bytes the freely chosen part of a buffer is drawn from
ByteValues == {0, 3, 255}

\* the words a program cell is drawn from: every opcode, with addresses
\* 0, 1 and 99, the four IO words, the extended mode word and invalid words
ProgWords ==
    {0, 10, 101, 201, 301, 400, 501, 699, 700, 800,
     901, 902, 903, 911, 912}

\* the words the last memory cell (address 99) is drawn from
\* the words of the programs under test: HLT, EXT, an invalid word, BR 0,
\* BR 99, IN, OUT, INA, OUTA
TestWords == {0, 10, 400, 600, 699, 901, 902, 911, 912}

\* the scripted inputs and the expected outputs of a Test
InputScripts == {<<>>, <<5>>, <<5, 7>>}

OutputScripts == {<<>>, <<0>>, <<5>>, <<0, 0>>, <<0, 5>>, <<5, 7>>}

\* the scripted char inputs with the expected char outputs of a Test
CharScripts == {<<(<<>>), (<<>>)>>, <<(<<7>>), (<<>>)>>,
                <<(<<>>), (<<0>>)>>, <<(<<>>), (<<7>>)>>}

TailWords == {0, 599}

\* the numbers a caller passes to input() and input_char()
InputValues == {0, 999}

ThreeDigitNumber == 0 .. (Radix - 1)

Addresses == 0 .. (MemLen - 1)

State ==
    {"Running", "AwaitingInput", "AwaitingOutput", "AwaitingCharInput",
     "AwaitingCharOutput", "Halted", "ReachedEnd", "InvalidInstruction"}

Terminal == {"Halted", "ReachedEnd", "InvalidInstruction"}

VARIABLES
    computer,   \* the Computer struct
    last_op,    \* the method of Computer called last
    pre_state,  \* the state the Computer was in when that call was made
    result,     \* what that call returned: a State, "Ok" or an Error
    io_val,     \* the number passed to input() / input_char(), or carried
                \* by an Ok of output() / output_char()
    run_pc,     \* position of a caller inside Computer::run
    run_ret,    \* the State Computer::run returned
    nsteps,     \* fetch-execute cycles performed so far
    cd_pc,      \* position of the caller of the codec
    cd_memory,  \* the Memory given to save_to_buffer
    cd_buffer,  \* the bytes returned by save_to_buffer or given to
                \* load_from_buffer
    cd_loaded,  \* what load_from_buffer returned for cd_buffer
    cd_padded,  \* what load_from_buffer returned for cd_buffer followed
                \* by zero bytes up to MAX_FILE_SIZE
    test,       \* the Test struct, its iterators as the items left
    cycles,     \* the local `cycles` of Test::run
    t_pc,       \* position of a caller inside Test::run
    t_ret,      \* what Test::run returned
    t_script,   \* the Test as it was given to Test::run
    t_fed,      \* the numbers the Computer received through input()
    t_got,      \* the numbers the Computer gave through output()
    t_steps,    \* the calls of Computer::step made by Test::run
    parser,     \* the Parser struct
    p_pc,       \* position of the caller of Parser::parse_line
    p_line,     \* the line given to parse_line
    p_ret,      \* what parse_line returned
    p_before,   \* the Parser as it was when parse_line was called
    p_text,     \* the text given to Parser::parse_text
    a_pc,       \* position of the caller of an assembler
    a_text,     \* the text given to the assembler
    a_ret       \* what the assembler returned

computer_vars ==
    <<computer, last_op, pre_state, result, io_val, run_pc, run_ret, nsteps>>

codec_vars == <<cd_pc, cd_memory, cd_buffer, cd_loaded, cd_padded>>

test_vars ==
    <<test, cycles, t_pc, t_ret, t_script, t_fed, t_got, t_steps>>

parser_vars == <<parser, p_pc, p_line, p_ret, p_before, p_text>>

assembler_vars == <<a_pc, a_text, a_ret>>

vars ==
    <<computer_vars, codec_vars, test_vars, parser_vars, assembler_vars>>

(* ------------------------------------------------------------------ *)
(* lib/num3.rs                                                         *)
(* ------------------------------------------------------------------ *)

\* addition without the reduction % 1000
add_assign_nowrap(a, b) == a + b

\* impl AddAssign for ThreeDigitNumber (the sum of two u16 below 1000
\* never leaves u16)
add_assign(a, b) == (a + b) % Radix

\* subtraction without the wrap into 0..999
sub_unwrapped(a, b) == <<a - b, a < b>>

\* impl Sub for ThreeDigitNumber: (difference, negative flag)
sub(a, b) == <<(a + Radix - b) % Radix, a < b>>

(* ------------------------------------------------------------------ *)
(* lib/computer.rs                                                     *)
(* ------------------------------------------------------------------ *)

\* Computer::new
new(mem) ==
    [state |-> "Running",
     memory |-> mem,
     counter |-> 0,
     register |-> 0,
     negative_flag |-> FALSE,
     extended_mode_flag |-> FALSE]

\* the fall-through at the end of step: self.counter += 1
Advance(c) == [c EXCEPT !.counter = @ + 1]

\* ADD
ExecAdd(c, data) ==
    [c EXCEPT !.register = add_assign(c.register, c.memory[data])]

\* SUB
ExecSub(c, data) ==
    LET r == sub(c.register, c.memory[data])
    IN  [c EXCEPT !.register = r[1], !.negative_flag = r[2]]

\* STO
ExecSto(c, data) == [c EXCEPT !.memory[data] = c.register]

\* LDA that clears the negative flag
ExecLdaClearing(c, data) ==
    [c EXCEPT !.register = c.memory[data], !.negative_flag = FALSE]

\* LDA
ExecLda(c, data) == [c EXCEPT !.register = c.memory[data]]

\* a taken branch that also falls through to the increment
BranchThenAdvance(c, data) == [c EXCEPT !.counter = data + 1]

\* a taken branch: the counter is overwritten and step returns at once
Branch(c, data) == [c EXCEPT !.counter = data]

\* BRZ
ExecBrz(c, data) ==
    IF c.register = 0 THEN Branch(c, data) ELSE Advance(c)

\* BRP that branches when the negative flag is set
ExecBrpOnNegative(c, data) ==
    IF c.negative_flag THEN Branch(c, data) ELSE Advance(c)

\* BRP
ExecBrp(c, data) ==
    IF ~c.negative_flag THEN Branch(c, data) ELSE Advance(c)

\* an invalid instruction that is stepped over
InvalidThenAdvance(c) ==
    [c EXCEPT !.state = "InvalidInstruction", !.counter = @ + 1]

\* the arms of `match data` that yield InvalidInstruction return at once
Invalid(c) == [c EXCEPT !.state = "InvalidInstruction"]

\* IO whose INA and OUTA arms do not look at the extended mode flag
ExecIoUnflagged(c, data) ==
    CASE data = 1 -> Advance([c EXCEPT !.state = "AwaitingInput"])
      [] data = 2 -> Advance([c EXCEPT !.state = "AwaitingOutput"])
      [] data = 11 -> Advance([c EXCEPT !.state = "AwaitingCharInput"])
      [] data = 12 -> Advance([c EXCEPT !.state = "AwaitingCharOutput"])
      [] OTHER -> Invalid(c)

\* IO
ExecIo(c, data) ==
    CASE data = 1 -> Advance([c EXCEPT !.state = "AwaitingInput"])
      [] data = 2 -> Advance([c EXCEPT !.state = "AwaitingOutput"])
      [] data = 11 /\ c.extended_mode_flag ->
             Advance([c EXCEPT !.state = "AwaitingCharInput"])
      [] data = 12 /\ c.extended_mode_flag ->
             Advance([c EXCEPT !.state = "AwaitingCharOutput"])
      [] OTHER -> Invalid(c)

\* HLT, and EXT in the extended build
ExecHlt(c, data) ==
    IF data = 10
    THEN Advance([c EXCEPT !.extended_mode_flag = TRUE])
    ELSE Advance([c EXCEPT !.state = "Halted"])

\* the decode and `match op_code` of step
Exec(c) ==
    LET instruction == c.memory[c.counter]
        op_code == instruction \div OpDiv
        data == instruction % OpDiv
    IN  CASE op_code = 1 -> Advance(ExecAdd(c, data))
          [] op_code = 2 -> Advance(ExecSub(c, data))
          [] op_code = 3 -> Advance(ExecSto(c, data))
          [] op_code = 5 -> Advance(ExecLda(c, data))
          [] op_code = 6 -> Branch(c, data)
          [] op_code = 7 -> ExecBrz(c, data)
          [] op_code = 8 -> ExecBrp(c, data)
          [] op_code = 9 -> ExecIo(c, data)
          [] op_code = 0 -> ExecHlt(c, data)
          [] OTHER -> Invalid(c)

\* step without the early return of a computer that is not running
step_unguarded(c) ==
    IF c.counter = MemLen THEN [c EXCEPT !.state = "ReachedEnd"]
    ELSE Exec(c)

\* Computer::step: the computer after the call; the call returns its state
step(c) ==
    IF c.state # "Running" THEN c
    ELSE IF c.counter = MemLen THEN [c EXCEPT !.state = "ReachedEnd"]
    ELSE Exec(c)

\* input that accepts a number in whatever state the computer is
input_unchecked(c, v) ==
    [c |-> [c EXCEPT !.register = v, !.state = "Running"], r |-> "Ok"]

\* input that takes the number and leaves the computer awaiting
input_no_resume(c, v) ==
    IF c.state = "AwaitingInput"
    THEN [c |-> [c EXCEPT !.register = v], r |-> "Ok"]
    ELSE [c |-> c, r |-> "UnexpectedInput"]

\* Computer::input
input(c, v) ==
    IF c.state = "AwaitingInput"
    THEN [c |-> [c EXCEPT !.register = v, !.state = "Running"], r |-> "Ok"]
    ELSE [c |-> c, r |-> "UnexpectedInput"]

\* output that drains the register
output_draining(c) ==
    IF c.state = "AwaitingOutput"
    THEN [c |-> [c EXCEPT !.state = "Running", !.register = 0], r |-> "Ok"]
    ELSE [c |-> c, r |-> "NoOutput"]

\* Computer::output
output(c) ==
    IF c.state = "AwaitingOutput"
    THEN [c |-> [c EXCEPT !.state = "Running"], r |-> "Ok"]
    ELSE [c |-> c, r |-> "NoOutput"]

\* Computer::input_char
input_char(c, v) ==
    IF c.state = "AwaitingCharInput"
    THEN [c |-> [c EXCEPT !.register = v, !.state = "Running"], r |-> "Ok"]
    ELSE [c |-> c, r |-> "UnexpectedCharInput"]

\* Computer::output_char
output_char(c) ==
    IF c.state = "AwaitingCharOutput"
    THEN [c |-> [c EXCEPT !.state = "Running"], r |-> "Ok"]
    ELSE [c |-> c, r |-> "NoCharOutput"]

\* reset that also clears the memory
reset_clearing(c) ==
    [c EXCEPT !.state = "Running", !.counter = 0, !.register = 0,
              !.negative_flag = FALSE, !.extended_mode_flag = FALSE,
              !.memory = [a \in Addresses |-> 0]]

\* Computer::reset
reset(c) ==
    [c EXCEPT !.state = "Running", !.counter = 0, !.register = 0,
              !.negative_flag = FALSE, !.extended_mode_flag = FALSE]

\* the loop condition of Computer::run: `while self.step() != State::Running`
RunContinues(returned) == returned # "Running"

(* ------------------------------------------------------------------ *)
(* lib/file/save.rs and lib/file/load.rs                               *)
(* ------------------------------------------------------------------ *)

\* `a | b` on unsigned integers
RECURSIVE BitOr(_, _)
BitOr(a, b) ==
    IF a = 0 THEN b
    ELSE IF b = 0 THEN a
    ELSE (IF a % 2 = 1 \/ b % 2 = 1 THEN 1 ELSE 0)
             + 2 * BitOr(a \div 2, b \div 2)

\* let mut buffer = [0; MAX_FILE_SIZE]
ZeroBuffer == [i \in 1 .. MAX_FILE_SIZE |-> 0]

\* [ThreeDigitNumber::ZERO; 100] and `let mut memory = [0; 100]`
ZeroMemory == [a \in Addresses |-> 0]

\* save_to_buffer: (number >> offset) as u8
save_lower(number, offset) == (number \div (2 ^ offset)) % ByteRange

\* save_to_buffer: (number << (8 - offset)) as u8
save_upper(number, offset) == (number * (2 ^ (8 - offset))) % ByteRange

\* a pass that skips a byte at the wrap of the offset
SaveBodySkipping(st, number) ==
    LET b1 == [st.buffer EXCEPT
                  ![st.index + 1] =
                      BitOr(@, save_lower(number, st.offset))]
        b2 == [b1 EXCEPT
                  ![st.index + 2] =
                      BitOr(@, save_upper(number, st.offset))]
    IN  IF st.offset + 2 = 10
        THEN [buffer |-> b2, index |-> st.index + 3, offset |-> 2]
        ELSE [buffer |-> b2, index |-> st.index + 1,
              offset |-> st.offset + 2]

\* save_to_buffer: one pass of the body of `for number in memory`, on the
\* loop state st = (buffer, index, offset); buffer[index] of the code is
\* buffer[index + 1] here
SaveBody(st, number) ==
    LET b1 == [st.buffer EXCEPT
                  ![st.index + 1] =
                      BitOr(@, save_lower(number, st.offset))]
        b2 == [b1 EXCEPT
                  ![st.index + 2] =
                      BitOr(@, save_upper(number, st.offset))]
    IN  IF st.offset + 2 = 10
        THEN [buffer |-> b2, index |-> st.index + 2, offset |-> 2]
        ELSE [buffer |-> b2, index |-> st.index + 1,
              offset |-> st.offset + 2]

\* save_to_buffer: the passes of the loop for the numbers at the addresses
\* lo .. hi - 1, in order (by halves; the first half is evaluated, by
\* the test of its offset, before the second half starts from it)
RECURSIVE SaveLoop(_, _, _, _)
SaveLoop(memory, lo, hi, st) ==
    IF lo >= hi THEN st
    ELSE IF hi = lo + 1 THEN SaveBody(st, memory[lo])
    ELSE LET mid == (lo + hi) \div 2
             first == SaveLoop(memory, lo, mid, st)
         IN  IF first.offset >= 0
             THEN SaveLoop(memory, mid, hi, first)
             ELSE first

\* the whole buffer, not trimmed
TrimNothing(buffer) == buffer

\* save_to_buffer: the slice up to the last non-zero byte
Trim(buffer) ==
    LET nonzero == {i \in 1 .. Len(buffer) : buffer[i] # 0}
    IN  IF nonzero = {} THEN <<>>
        ELSE SubSeq(buffer, 1, CHOOSE i \in nonzero :
                                   \A j \in nonzero : j <= i)

\* save_to_buffer
save_to_buffer(buffer, memory) ==
    Trim(SaveLoop(memory, 0, MemLen,
                  [buffer |-> buffer, index |-> 0, offset |-> 2]).buffer)

\* a lower part shifted by one bit too few
load_lower_short(byte, offset) == byte \div (2 ^ (9 - offset))

\* load_from_buffer: u16::from(*byte) >> (10 - offset)
load_lower(byte, offset) == byte \div (2 ^ (10 - offset))

\* the upper part without the mask
load_upper_unmasked(byte, offset) == byte * (2 ^ offset)

\* load_from_buffer: (u16::from(*byte) << offset) % 0b100_0000_0000
load_upper(byte, offset) == (byte * (2 ^ offset)) % TenBits

\* Result<Memory, Error> of load_from_buffer
LoadOk(memory) == [tag |-> "Ok", memory |-> memory, at |-> 0, number |-> 0]

InvalidNumberErr(address, number) ==
    [tag |-> "InvalidNumber", memory |-> ZeroMemory,
     at |-> address, number |-> number]

BufferTooLargeErr(size) ==
    [tag |-> "BufferTooLarge", memory |-> ZeroMemory,
     at |-> size, number |-> 0]

\* load_from_buffer: one pass of the body of
\* `for (index, byte) in buffer.iter().enumerate()`, on the loop state
\* st = (memory, address, offset, ret), ret being the error the function
\* has returned with, if any
LoadBody(st, index, byte) ==
    LET m1 == [st.memory EXCEPT
                  ![st.address] = BitOr(@, load_lower(byte, st.offset))]
        address2 == IF index # 0 THEN st.address + 1 ELSE st.address
        m2 == [m1 EXCEPT
                  ![address2] = BitOr(@, load_upper(byte, st.offset))]
    IN  IF st.ret.tag # "Ok" THEN st
        ELSE IF index # 0 /\ m1[st.address] > MaxNumber
        THEN [st EXCEPT
                 !.ret = InvalidNumberErr(st.address, m1[st.address])]
        ELSE IF st.offset + 2 = 10
        THEN [st EXCEPT
                 !.memory = m2, !.address = address2 - 1, !.offset = 0]
        ELSE [st EXCEPT
                 !.memory = m2, !.address = address2, !.offset = @ + 2]

\* load_from_buffer: the passes of the loop for the bytes at the indexes
\* lo .. hi - 1, in order (by halves; the first half is evaluated, by
\* the test of its offset, before the second half starts from it)
RECURSIVE LoadLoop(_, _, _, _)
LoadLoop(buffer, lo, hi, st) ==
    IF lo >= hi THEN st
    ELSE IF hi = lo + 1 THEN LoadBody(st, lo, buffer[lo + 1])
    ELSE LET mid == (lo + hi) \div 2
             first == LoadLoop(buffer, lo, mid, st)
         IN  IF first.offset >= 0
             THEN LoadLoop(buffer, mid, hi, first)
             ELSE first

\* load_from_buffer
load_from_buffer(buffer) ==
    IF Len(buffer) > MAX_FILE_SIZE THEN BufferTooLargeErr(Len(buffer))
    ELSE LET st == LoadLoop(buffer, 0, Len(buffer),
                            [memory |-> ZeroMemory, address |-> 0,
                             offset |-> 2, ret |-> LoadOk(ZeroMemory)])
         IN  IF st.ret.tag # "Ok" THEN st.ret ELSE LoadOk(st.memory)

(* ------------------------------------------------------------------ *)
(* lib/runner/tester/mod.rs                                            *)
(* ------------------------------------------------------------------ *)

\* Iterator::next on the items left: the item, if any, and the rest
HasNext(items) == items # <<>>

\* an ErrorWithLocation(AfterCycles(after), TestError), or Ok(after)
TestRet(tag, after, expected, got, state) ==
    [tag |-> tag, after |-> after, expected |-> expected, got |-> got,
     state |-> state]

NoRet == TestRet("None", 0, 0, 0, "None")

\* a return of Ok that leaves the cycle count as it was
StepOkUncounted(c, t, cy, done) ==
    [computer |-> c, test |-> t, cycles |-> cy, done |-> done,
     err |-> NoRet]

\* what one call of Test::step leaves: the computer, the test, the cycle
\* count, whether it returned Ok(true), and the error it returned if any
StepOk(c, t, cy, done) ==
    [computer |-> c, test |-> t, cycles |-> cy + 1, done |-> done,
     err |-> NoRet]

StepErr(c, t, cy, err) ==
    [computer |-> c, test |-> t, cycles |-> cy, done |-> FALSE, err |-> err]

\* a budget test that lets one more cycle through
BudgetSpentLate(cy, max_cycles) == cy = max_cycles + 1

\* Test::step: `*cycles == test.max_cycles`
BudgetSpent(cy, max_cycles) == cy = max_cycles

\* an input arm that feeds the last scripted input
StepAwaitingInputLast(c, t, cy) ==
    IF ~HasNext(t.inputs)
    THEN StepErr(c, t, cy, TestRet("RunOutOfInputs", cy, 0, 0, "None"))
    ELSE LET given == input(c, t.inputs[Len(t.inputs)])
         IN  IF given.r # "Ok"
             THEN StepErr(given.c, t, cy, TestRet("Panic", cy, 0, 0, "None"))
             ELSE StepOk(given.c,
                         [t EXCEPT !.inputs = SubSeq(@, 1, Len(@) - 1)],
                         cy, FALSE)

\* Test::step, State::AwaitingInput
StepAwaitingInput(c, t, cy) ==
    IF ~HasNext(t.inputs)
    THEN StepErr(c, t, cy, TestRet("RunOutOfInputs", cy, 0, 0, "None"))
    ELSE LET given == input(c, Head(t.inputs))
             t1 == [t EXCEPT !.inputs = Tail(@)]
         IN  IF given.r # "Ok"
             THEN StepErr(given.c, t1, cy,
                          TestRet("Panic", cy, 0, 0, "None"))
             ELSE StepOk(given.c, t1, cy, FALSE)

\* an output arm that does not compare
StepAwaitingOutputLenient(c, t, cy) ==
    LET taken == output(c)
    IN  IF ~HasNext(t.outputs)
        THEN StepErr(taken.c, t, cy,
                     TestRet("RunOutOfOutputs", cy, 0, c.register, "None"))
        ELSE StepOk(taken.c, [t EXCEPT !.outputs = Tail(@)], cy, FALSE)

\* Test::step, State::AwaitingOutput
StepAwaitingOutput(c, t, cy) ==
    LET taken == output(c)
        got == c.register
    IN  IF taken.r # "Ok"
        THEN StepErr(taken.c, t, cy, TestRet("Panic", cy, 0, 0, "None"))
        ELSE IF ~HasNext(t.outputs)
        THEN StepErr(taken.c, t, cy,
                     TestRet("RunOutOfOutputs", cy, 0, got, "None"))
        ELSE LET expected == Head(t.outputs)
                 t1 == [t EXCEPT !.outputs = Tail(@)]
             IN  IF got # expected
                 THEN StepErr(taken.c, t1, cy,
                              TestRet("DifferentOutput", cy, expected, got,
                                      "None"))
                 ELSE StepOk(taken.c, t1, cy, FALSE)

\* Test::step, State::AwaitingCharInput
StepAwaitingCharInput(c, t, cy) ==
    IF ~HasNext(t.char_inputs)
    THEN StepErr(c, t, cy, TestRet("RunOutOfCharInputs", cy, 0, 0, "None"))
    ELSE LET given == input_char(c, Head(t.char_inputs))
             t1 == [t EXCEPT !.char_inputs = Tail(@)]
         IN  IF given.r # "Ok"
             THEN StepErr(given.c, t1, cy,
                          TestRet("Panic", cy, 0, 0, "None"))
             ELSE StepOk(given.c, t1, cy, FALSE)

\* Test::step, State::AwaitingCharOutput
StepAwaitingCharOutput(c, t, cy) ==
    LET taken == output_char(c)
        got == c.register
    IN  IF taken.r # "Ok"
        THEN StepErr(taken.c, t, cy, TestRet("Panic", cy, 0, 0, "None"))
        ELSE IF ~HasNext(t.char_outputs)
        THEN StepErr(taken.c, t, cy,
                     TestRet("RunOutOfCharOutputs", cy, 0, got, "None"))
        ELSE LET expected == Head(t.char_outputs)
                 t1 == [t EXCEPT !.char_outputs = Tail(@)]
             IN  IF got # expected
                 THEN StepErr(taken.c, t1, cy,
                              TestRet("DifferentCharOutput", cy, expected,
                                      got, "None"))
                 ELSE StepOk(taken.c, t1, cy, FALSE)

\* Test::step
test_step(c, t, cy) ==
    IF BudgetSpent(cy, t.max_cycles)
    THEN StepErr(c, t, cy, TestRet("RunOutOfCycles", cy, 0, 0, "None"))
    ELSE LET c1 == step(c)
         IN  CASE c1.state = "Running" -> StepOk(c1, t, cy, FALSE)
               [] c1.state = "AwaitingInput" -> StepAwaitingInput(c1, t, cy)
               [] c1.state = "AwaitingOutput" -> StepAwaitingOutput(c1, t, cy)
               [] c1.state = "AwaitingCharInput" ->
                      StepAwaitingCharInput(c1, t, cy)
               [] c1.state = "AwaitingCharOutput" ->
                      StepAwaitingCharOutput(c1, t, cy)
               [] c1.state \in {"Halted", "ReachedEnd"} ->
                      StepOk(c1, t, cy, TRUE)
               [] OTHER ->
                      StepErr(c1, t, cy,
                              TestRet("ComputerError", cy, 0, 0, c1.state))

\* the end of a run that accepts whatever is left of the script
AfterLoopPrefix(t, cy) == TestRet("Ok", cy, 0, 0, "None")

\* Test::run after its loop: every iterator must be exhausted
AfterLoop(t, cy) ==
    IF HasNext(t.inputs)
    THEN TestRet("ExpectedMoreInputs", cy, 0, 0, "None")
    ELSE IF HasNext(t.outputs)
    THEN TestRet("ExpectedMoreOutputs", cy, 0, 0, "None")
    ELSE IF HasNext(t.char_inputs)
    THEN TestRet("ExpectedMoreCharInputs", cy, 0, 0, "None")
    ELSE IF HasNext(t.char_outputs)
    THEN TestRet("ExpectedMoreCharOutputs", cy, 0, 0, "None")
    ELSE TestRet("Ok", cy, 0, 0, "None")

(* ------------------------------------------------------------------ *)
(* lib/helper, lib/assembly.rs and lib/parser/mod.rs                    *)
(* A &str is the sequence of its chars.                                *)
(* ------------------------------------------------------------------ *)

Uppers ==
    <<"A", "B", "C", "D", "E", "F", "G", "H", "I", "J", "K", "L", "M",
      "N", "O", "P", "Q", "R", "S", "T", "U", "V", "W", "X", "Y", "Z">>

Lowers ==
    <<"a", "b", "c", "d", "e", "f", "g", "h", "i", "j", "k", "l", "m",
      "n", "o", "p", "q", "r", "s", "t", "u", "v", "w", "x", "y", "z">>

Digits == <<"0", "1", "2", "3", "4", "5", "6", "7", "8", "9">>

\* char::is_whitespace, for the chars of the lines drawn
WhitespaceChars == {" ", "\t", "\r"}

\* parse_line: `&['#', ';'][..]`
CommentMarkers == {"#", ";"}

to_ascii_uppercase(ch) ==
    IF \E i \in DOMAIN Lowers : Lowers[i] = ch
    THEN Uppers[CHOOSE i \in DOMAIN Lowers : Lowers[i] = ch]
    ELSE ch

to_ascii_lowercase(ch) ==
    IF \E i \in DOMAIN Uppers : Uppers[i] = ch
    THEN Lowers[CHOOSE i \in DOMAIN Uppers : Uppers[i] = ch]
    ELSE ch

\* case_insensitive::Char == char
CharEq(a, b) == to_ascii_lowercase(a) = b \/ to_ascii_uppercase(a) = b

\* case_insensitive::Str == &str
StrEq(a, b) ==
    /\ Len(a) = Len(b)
    /\ \A i \in 1 .. Len(a) : CharEq(a[i], b[i])

\* the mnemonics of Instruction::try_from with the variant each gives
MnemonicTable ==
    {<<(<<"A", "D", "D">>), "ADD">>, <<(<<"S", "U", "B">>), "SUB">>,
     <<(<<"S", "T", "O">>), "STO">>, <<(<<"S", "T", "A">>), "STO">>,
     <<(<<"L", "D", "A">>), "LDA">>,
     <<(<<"B", "R">>), "BR">>, <<(<<"B", "R", "A">>), "BR">>,
     <<(<<"B", "R", "Z">>), "BRZ">>, <<(<<"B", "R", "P">>), "BRP">>,
     <<(<<"I", "N">>), "IN">>, <<(<<"I", "N", "P">>), "IN">>,
     <<(<<"O", "U", "T">>), "OUT">>,
     <<(<<"I", "N", "A">>), "INA">>, <<(<<"O", "T", "A">>), "OUTA">>,
     <<(<<"H", "L", "T">>), "HLT">>, <<(<<"E", "X", "T">>), "EXT">>,
     <<(<<"D", "A", "T">>), "DAT">>}

\* Instruction::<()>::try_from(&str)
instruction_try_from(value) ==
    LET hits == {m \in MnemonicTable : StrEq(value, m[1])}
    IN  IF hits = {} THEN [ok |-> FALSE, op |-> "None"]
        ELSE [ok |-> TRUE, op |-> (CHOOSE m \in hits : TRUE)[2]]

IsDigit(ch) == \E i \in DOMAIN Digits : Digits[i] = ch

DigitValue(ch) == (CHOOSE i \in DOMAIN Digits : Digits[i] = ch) - 1

RECURSIVE Decimal(_)
Decimal(s) ==
    IF s = <<>> THEN 0
    ELSE Decimal(SubSeq(s, 1, Len(s) - 1)) * 10 + DigitValue(s[Len(s)])

\* str::parse::<u16>: an optional '+', then digits, the value within u16
parse_u16(s) ==
    LET digits == IF s # <<>> /\ s[1] = "+" THEN Tail(s) ELSE s
    IN  IF digits = <<>> \/ \E i \in 1 .. Len(digits) : ~IsDigit(digits[i])
        THEN [ok |-> FALSE, value |-> 0]
        ELSE IF Decimal(digits) > U16Max THEN [ok |-> FALSE, value |-> 0]
        ELSE [ok |-> TRUE, value |-> Decimal(digits)]

\* NumberOrLabel and the absent Option<NumberOrLabel>
Number(n) == [kind |-> "Number", number |-> n, label |-> <<>>]

Label(l) == [kind |-> "Label", number |-> 0, label |-> l]

NoData == [kind |-> "None", number |-> 0, label |-> <<>>]

\* NumberOrLabel::from(&str), through ThreeDigitNumber::try_from(u16)
number_or_label(value) ==
    LET n == parse_u16(value)
    IN  IF n.ok /\ n.value < Radix THEN Number(n.value) ELSE Label(value)

\* Option<&str>
SomeStr(str) == [some |-> TRUE, str |-> str]

NoStr == [some |-> FALSE, str |-> <<>>]

\* the instructions that carry data
TakesData == {"ADD", "SUB", "STO", "LDA", "BR", "BRP", "BRZ", "DAT"}

\* Result<InstructionWithLabel, parser::Error>
ParsedOk(label, op, data) ==
    [tag |-> "Ok", detail |-> "None",
     value |-> [label |-> label, op |-> op, data |-> data]]

\* a slot of Parser::parsed that was never written
Uninit == [label |-> NoStr, op |-> "Uninit", data |-> NoData]

ParsedErr(tag, detail) == [tag |-> tag, detail |-> detail, value |-> Uninit]

\* try_insert_data that lets a DAT stand without its number
try_insert_data_bare_dat(op, data, label) ==
    IF op \in TakesData
    THEN IF data.kind # "None" \/ op = "DAT" THEN ParsedOk(label, op, data)
         ELSE ParsedErr("DataPresence", "ExpectedData")
    ELSE IF data.kind # "None"
         THEN ParsedErr("DataPresence", "UnexpectedData")
         ELSE ParsedOk(label, op, NoData)

\* Instruction::try_insert_data, then add_label
try_insert_data(op, data, label) ==
    IF op \in TakesData
    THEN IF data.kind # "None" THEN ParsedOk(label, op, data)
         ELSE ParsedErr("DataPresence", "ExpectedData")
    ELSE IF data.kind # "None"
         THEN ParsedErr("DataPresence", "UnexpectedData")
         ELSE ParsedOk(label, op, NoData)

\* InstructionWithLabel::parse, on the one to three words present
parse(words) ==
    LET inst1 == instruction_try_from(words[1])
        first == number_or_label(words[1])
        has2 == Len(words) >= 2
        inst2 == instruction_try_from(words[2])
        has3 == Len(words) >= 3
    IN  IF ~inst1.ok /\ first.kind # "Label"
        THEN ParsedErr("UnexpectedNumber", "None")
        ELSE IF has2 /\ inst2.ok /\ inst1.ok
        THEN ParsedErr("MultipleInstructions", "None")
        ELSE
        LET label == IF inst1.ok THEN NoStr ELSE SomeStr(first.label)
            instruction == IF has2 /\ inst2.ok THEN inst2 ELSE inst1
            data2 == IF has2 /\ ~inst2.ok THEN number_or_label(words[2])
                     ELSE NoData
        IN  IF has3 /\ instruction_try_from(words[3]).ok
            THEN ParsedErr("MultipleInstructions", "None")
            ELSE IF has3 /\ data2.kind # "None"
            THEN ParsedErr("TooManyWords", "None")
            ELSE IF ~instruction.ok
            THEN ParsedErr("NoInstruction", "None")
            ELSE try_insert_data(
                     instruction.op,
                     IF has3 THEN number_or_label(words[3]) ELSE data2,
                     label)

\* str::split on a set of chars: the parts between the chars of the set
RECURSIVE split(_, _)
split(s, pattern) ==
    IF s = <<>> THEN <<(<<>>)>>
    ELSE IF Len(s) = 1
    THEN IF s[1] \in pattern THEN <<(<<>>), (<<>>)>> ELSE <<s>>
    ELSE LET half == Len(s) \div 2
             left == split(SubSeq(s, 1, half), pattern)
             right == split(SubSeq(s, half + 1, Len(s)), pattern)
         IN  SubSeq(left, 1, Len(left) - 1)
                 \o <<(left[Len(left)] \o right[1])>>
                 \o Tail(right)

NonEmpty(word) == word # <<>>

\* str::split_whitespace
split_whitespace(s) == SelectSeq(split(s, WhitespaceChars), NonEmpty)

\* the part of the line before a '#' only
line_code_hash_only(line) == Head(split(line, {"#"}))

\* parse_line: `line.split(&['#', ';'][..]).next()`
line_code(line) == Head(split(line, CommentMarkers))

\* Result<(), ErrorWithLocation<InstructionNumber>>
LineRet(tag, detail, at) == [tag |-> tag, detail |-> detail, at |-> at]

LineOk == LineRet("Ok", "None", 0)

\* Parser::new
parser_new ==
    [parsed |-> [i \in 0 .. (Capacity - 1) |-> Uninit],
     instruction_number |-> 0]

\* parse_line that takes the instruction before it looks at the count
parse_line_count_late(p, line) ==
    LET code == line_code(line)
        words == split_whitespace(code)
        n == p.instruction_number
        instruction == parse(words)
    IN  IF code = <<>> THEN [parser |-> p, ret |-> LineOk]
        ELSE IF Len(words) > WordsMax
        THEN [parser |-> p, ret |-> LineRet("TooManyWords", "None", n + 1)]
        ELSE IF words = <<>> THEN [parser |-> p, ret |-> LineOk]
        ELSE IF instruction.tag # "Ok"
        THEN [parser |-> p,
              ret |-> LineRet(instruction.tag, instruction.detail, n + 1)]
        ELSE IF n = Capacity
        THEN [parser |-> p,
              ret |-> LineRet("TooManyInstructions", "None", n + 1)]
        ELSE [parser |->
                  [p EXCEPT !.parsed[n] = instruction.value,
                            !.instruction_number = n + 1],
              ret |-> LineOk]

\* Parser::parse_line: the parser after the call and what it returned
parse_line(p, line) ==
    LET code == line_code(line)
        words == split_whitespace(code)
        n == p.instruction_number
        instruction == parse(words)
    IN  IF code = <<>> THEN [parser |-> p, ret |-> LineOk]
        ELSE IF Len(words) > WordsMax
        THEN [parser |-> p, ret |-> LineRet("TooManyWords", "None", n + 1)]
        ELSE IF words = <<>> THEN [parser |-> p, ret |-> LineOk]
        ELSE IF n = Capacity
        THEN [parser |-> p,
              ret |-> LineRet("TooManyInstructions", "None", n + 1)]
        ELSE IF instruction.tag # "Ok"
        THEN [parser |-> p,
              ret |-> LineRet(instruction.tag, instruction.detail, n + 1)]
        ELSE [parser |->
                  [p EXCEPT !.parsed[n] = instruction.value,
                            !.instruction_number = n + 1],
              ret |-> LineOk]

\* str::lines: the parts between line feeds, a carriage return before a
\* line feed taken off, and no last line when nothing follows the last
\* line feed
lines(text) ==
    LET parts == split(text, {"\n"})
        n == Len(parts)
        strip(part) ==
            IF part # <<>> /\ part[Len(part)] = "\r"
            THEN SubSeq(part, 1, Len(part) - 1)
            ELSE part
        ended == [i \in 1 .. (n - 1) |-> strip(parts[i])]
    IN  IF parts[n] = <<>> THEN ended ELSE ended \o <<parts[n]>>

\* the error of parse_line as parse_line located it
with_instruction_number(line_number, error) == error

\* parse_text: `ErrorWithLocation(LineNumber(line_number + 1), error.1)`
with_line_number(line_number, error) ==
    LineRet(error.tag, error.detail, line_number + 1)

\* parse_text: try_for_each over the enumerated lines, from line_number on
RECURSIVE parse_lines(_, _, _)
parse_lines(p, ls, line_number) ==
    IF ls = <<>> THEN [parser |-> p, ret |-> LineOk]
    ELSE LET r == parse_line(p, Head(ls))
         IN  IF r.ret.tag # "Ok"
             THEN [parser |-> [parsed |-> <<>>, instruction_number |-> 0],
                   ret |-> with_line_number(line_number, r.ret)]
             ELSE parse_lines(r.parser, Tail(ls), line_number + 1)

\* Parser::parse_text: the Parser returned (none with an error) and the
\* result
parse_text(text) == parse_lines(parser_new, lines(text), 0)

\* Result<ThreeDigitNumber, Error> of resolve_label
ResolveOk(number) == [tag |-> "Ok", number |-> number]

ResolveErr == [tag |-> "UnknownLabel", number |-> 0]

\* the instructions ParsedIter yields that carry the label
Labelled(p, label) ==
    {index \in 0 .. (p.instruction_number - 1) :
        /\ p.parsed[index].label.some
        /\ p.parsed[index].label.str = label}

\* resolve_label that counts the instructions from one
resolve_label_from_one(p, label) ==
    LET hits == Labelled(p, label)
    IN  IF hits = {} THEN ResolveErr
        ELSE ResolveOk((CHOOSE i \in hits : \A j \in hits : i <= j) + 1)

\* Parser::resolve_label: find_map over the enumerated instructions
resolve_label(p, label) ==
    LET hits == Labelled(p, label)
    IN  IF hits = {} THEN ResolveErr
        ELSE ResolveOk(CHOOSE i \in hits : \A j \in hits : i <= j)

(* ------------------------------------------------------------------ *)
(* lib/number_assembler.rs                                             *)
(* ------------------------------------------------------------------ *)

\* str::trim: white space taken off both ends
RECURSIVE trim_start(_)
trim_start(s) ==
    IF s # <<>> /\ Head(s) \in WhitespaceChars THEN trim_start(Tail(s))
    ELSE s

RECURSIVE trim_end(_)
trim_end(s) ==
    IF s # <<>> /\ s[Len(s)] \in WhitespaceChars
    THEN trim_end(SubSeq(s, 1, Len(s) - 1))
    ELSE s

trim(s) == trim_end(trim_start(s))

\* NumberAssembler::new
number_assembler_new == [memory |-> [a \in 0 .. 99 |-> 0], index |-> 0]

\* Result<(), FromNumbersError>
NumbersOk == [tag |-> "Ok", detail |-> "None"]

NumbersErr(tag) == [tag |-> tag, detail |-> "None"]

\* assemble_line: `code.trim()`, what is given to str::parse
number_code(code) == trim(code)

\* NumberAssembler::assemble_line: the assembler after the call and what
\* it returned
assemble_line(a, line) ==
    LET code == Head(split(line, CommentMarkers))
        number == parse_u16(number_code(code))
    IN  IF a.index = 100
        THEN [assembler |-> a, ret |-> NumbersErr("TooManyNumbers")]
        ELSE IF code = <<>> THEN [assembler |-> a, ret |-> NumbersOk]
        ELSE IF ~number.ok
        THEN [assembler |-> a, ret |-> NumbersErr("InvalidNumber")]
        ELSE IF number.value >= Radix
        THEN [assembler |-> a, ret |-> NumbersErr("TooLarge")]
        ELSE [assembler |->
                  [memory |-> [a.memory EXCEPT ![a.index] = number.value],
                   index |-> a.index + 1],
              ret |-> NumbersOk]

\* Result<Memory, ErrorWithLineNumber>, no Memory with an error
AssemblyOk(memory) ==
    [tag |-> "Ok", detail |-> "None", at |-> 0, memory |-> memory]

AssemblyErr(tag, detail, at) ==
    [tag |-> tag, detail |-> detail, at |-> at, memory |-> <<>>]

\* assemble_from_text: try_for_each over the enumerated lines, the first
\* of them being line line_number; the assembler after the lines and the
\* first error, located
RECURSIVE assemble_lines(_, _, _)
assemble_lines(a, ls, line_number) ==
    IF ls = <<>> THEN [assembler |-> a, ret |-> AssemblyOk(a.memory)]
    ELSE IF Len(ls) = 1
    THEN LET r == assemble_line(a, ls[1])
         IN  IF r.ret.tag # "Ok"
             THEN [assembler |-> a,
                   ret |-> AssemblyErr(r.ret.tag, r.ret.detail,
                                       line_number + 1)]
             ELSE [assembler |-> r.assembler,
                   ret |-> AssemblyOk(r.assembler.memory)]
    ELSE LET half == Len(ls) \div 2
             first == assemble_lines(a, SubSeq(ls, 1, half), line_number)
         IN  IF first.ret.tag # "Ok" THEN first
             ELSE assemble_lines(first.assembler,
                                 SubSeq(ls, half + 1, Len(ls)),
                                 line_number + half)

\* NumberAssembler::assemble_from_text
assemble_from_text(text) ==
    assemble_lines(number_assembler_new, lines(text), 0).ret

(* ------------------------------------------------------------------ *)
(* lib/assembler.rs                                                    *)
(* ------------------------------------------------------------------ *)

\* the class [ \ta-zA-Z\d_] of ASSEMBLY_REGEX
AssemblyChars ==
    {Uppers[i] : i \in DOMAIN Uppers} \cup {Lowers[i] : i \in DOMAIN Lowers}
        \cup {Digits[i] : i \in DOMAIN Digits} \cup {"_", " ", "\t"}

\* ASSEMBLY_REGEX on one line: the chars up to the first one outside the
\* class
RECURSIVE ASSEMBLY_REGEX(_)
ASSEMBLY_REGEX(line) ==
    IF line = <<>> \/ Head(line) \notin AssemblyChars THEN <<>>
    ELSE <<Head(line)>> \o ASSEMBLY_REGEX(Tail(line))

\* DECIMAL_NUMBER: ^\d+$
DECIMAL_NUMBER(word) ==
    word # <<>> /\ \A i \in 1 .. Len(word) : IsDigit(word[i])

\* str::to_uppercase
to_uppercase(text) ==
    [i \in 1 .. Len(text) |-> to_ascii_uppercase(text[i])]

\* find_iter and filter_map: the words of every line that has any
matched_lines(text) ==
    LET parts == split(to_uppercase(text), {"\n"})
        words == [i \in 1 .. Len(parts) |->
                     split_whitespace(ASSEMBLY_REGEX(parts[i]))]
    IN  SelectSeq(words, NonEmpty)

instructionPatternWithAddress ==
    {<<"A", "D", "D">>, <<"S", "U", "B">>, <<"S", "T", "O">>,
     <<"S", "T", "A">>, <<"L", "D", "A">>, <<"B", "R">>,
     <<"B", "R", "A">>, <<"B", "R", "Z">>, <<"B", "R", "P">>}

instructionPatternWithoutAddress ==
    {<<"I", "N">>, <<"I", "N", "P">>, <<"O", "U", "T">>, <<"H", "L", "T">>}

extendedInstructions == {<<"I", "N", "A">>, <<"O", "T", "A">>}

DAT == <<"D", "A", "T">>

instructionPattern ==
    instructionPatternWithAddress \cup instructionPatternWithoutAddress
        \cup {DAT} \cup extendedInstructions

\* Option<&str>::None
None == <<>>

\* Err(Error::...(i + 1, word)), and the Ok of a part of the assembler
LegacyErr(tag, at, word) == [tag |-> tag, at |-> at, word |-> word]

\* `for word in line`: line_var, inst_opt and addr_var after the words
RECURSIVE read_words(_, _, _)
read_words(words, i, st) ==
    IF words = <<>> THEN [tag |-> "Ok", st |-> st]
    ELSE LET word == Head(words)
         IN  IF word \in instructionPattern
             THEN IF st.inst_opt # None
                  THEN LegacyErr("MultipleInstructions", i + 1, word)
                  ELSE read_words(Tail(words), i,
                                  [st EXCEPT !.inst_opt = word])
             ELSE IF st.inst_opt = None
             THEN IF st.line_var # None
                  THEN LegacyErr("InvalidInstruction", i + 1, word)
                  ELSE read_words(Tail(words), i,
                                  [st EXCEPT !.line_var = word])
             ELSE IF st.addr_var # None
             THEN LegacyErr("ExcessWords", i + 1, word)
             ELSE read_words(Tail(words), i, [st EXCEPT !.addr_var = word])

\* HashMap::insert
insert(variables, var, address) ==
    [v \in DOMAIN variables \cup {var} |->
        IF v = var THEN address ELSE variables[v]]

\* the first loop of assemble_from_assembly, from matched line i on
RECURSIVE first_pass(_, _, _, _)
first_pass(ls, i, variables, code) ==
    IF ls = <<>>
    THEN [tag |-> "Ok", variables |-> variables, code |-> code]
    ELSE IF i = 100 THEN LegacyErr("TooManyLines", 0, None)
    ELSE LET r == read_words(Head(ls), i,
                      [line_var |-> None, inst_opt |-> None,
                       addr_var |-> None])
         IN  IF r.tag # "Ok" THEN r
             ELSE IF r.st.inst_opt = None
             THEN LegacyErr("NoInstruction", i + 1, None)
             ELSE IF r.st.line_var # None /\ DECIMAL_NUMBER(r.st.line_var)
             THEN LegacyErr("InvalidVariable", i + 1, r.st.line_var)
             ELSE IF r.st.line_var # None
                     /\ r.st.line_var \in DOMAIN variables
             THEN LegacyErr("MultipleAssignment", i + 1, r.st.line_var)
             ELSE first_pass(
                      Tail(ls), i + 1,
                      IF r.st.line_var # None
                      THEN insert(variables, r.st.line_var, i)
                      ELSE variables,
                      Append(code, <<r.st.inst_opt, r.st.addr_var>>))

\* `let opcode = match inst` with LDA under the number after STO
opcode_lda_four(inst) ==
    IF inst = <<"A", "D", "D">> THEN 100
    ELSE IF inst = <<"S", "U", "B">> THEN 200
    ELSE IF inst \in {<<"S", "T", "O">>, <<"S", "T", "A">>} THEN 300
    ELSE IF inst = <<"L", "D", "A">> THEN 400
    ELSE IF inst \in {<<"B", "R">>, <<"B", "R", "A">>} THEN 600
    ELSE IF inst = <<"B", "R", "Z">> THEN 700
    ELSE IF inst = <<"B", "R", "P">> THEN 800
    ELSE 0

\* `let opcode = match inst`
opcode(inst) ==
    IF inst = <<"A", "D", "D">> THEN 100
    ELSE IF inst = <<"S", "U", "B">> THEN 200
    ELSE IF inst \in {<<"S", "T", "O">>, <<"S", "T", "A">>} THEN 300
    ELSE IF inst = <<"L", "D", "A">> THEN 500
    ELSE IF inst \in {<<"B", "R">>, <<"B", "R", "A">>} THEN 600
    ELSE IF inst = <<"B", "R", "Z">> THEN 700
    ELSE IF inst = <<"B", "R", "P">> THEN 800
    ELSE 0

\* `let addr: u16 = ...` and `let number: u16 = ...`: a number up to max,
\* a known variable, or the next free address after the code
operand(var, i, max, error, variables, variables_number, code) ==
    LET number == parse_u16(var)
        var_addr == Len(code) + variables_number
        given(value) ==
            [tag |-> "Ok", value |-> value, variables |-> variables,
             variables_number |-> variables_number]
    IN  IF DECIMAL_NUMBER(var)
        THEN IF number.ok /\ number.value <= max THEN given(number.value)
             ELSE LegacyErr(error, i + 1, var)
        ELSE IF var \in DOMAIN variables THEN given(variables[var])
        ELSE IF var_addr > 99 THEN LegacyErr("TooManyVariables", i + 1, var)
        ELSE [tag |-> "Ok", value |-> var_addr,
              variables |-> insert(variables, var, var_addr),
              variables_number |-> variables_number + 1]

\* `memory[i] = match inst`: the word for the instruction at index i of
\* the code, with the variables after it
encode(inst, addr_var, i, variables, variables_number, code, memory) ==
    LET plain(value) ==
            [tag |-> "Ok", value |-> value, variables |-> variables,
             variables_number |-> variables_number]
        addr == operand(addr_var, i, 99, "InvalidAddress", variables,
                        variables_number, code)
        number == operand(addr_var, i, 999, "InvalidNumber", variables,
                          variables_number, code)
    IN  IF inst \in instructionPatternWithAddress
        THEN IF addr_var = None THEN LegacyErr("ExpectedAddress", i + 1, None)
             ELSE IF addr.tag # "Ok" THEN addr
             ELSE [addr EXCEPT !.value = opcode(inst) + addr.value]
        ELSE IF inst \in instructionPatternWithoutAddress
        THEN IF addr_var # None
             THEN LegacyErr("UnexpectedAddress", i + 1, addr_var)
             ELSE IF inst \in {<<"I", "N">>, <<"I", "N", "P">>}
             THEN plain(901)
             ELSE IF inst = <<"O", "U", "T">> THEN plain(902)
             ELSE plain(0)
        ELSE IF inst = DAT
        THEN IF addr_var = None THEN LegacyErr("ExpectedNumber", i + 1, None)
             ELSE number
        ELSE IF inst \in extendedInstructions /\ memory[0] = 10
        THEN IF addr_var # None
             THEN LegacyErr("UnexpectedAddress", i + 1, addr_var)
             ELSE IF inst = <<"I", "N", "A">> THEN plain(911)
             ELSE plain(912)
        ELSE LegacyErr("InvalidInstruction", i + 1, inst)

\* the second loop of assemble_from_assembly, from index i of the code on
RECURSIVE second_pass(_, _, _, _, _)
second_pass(code, i, variables, variables_number, memory) ==
    IF i = Len(code) THEN [tag |-> "Ok", memory |-> memory]
    ELSE LET r == encode(code[i + 1][1], code[i + 1][2], i, variables,
                         variables_number, code, memory)
         IN  IF r.tag # "Ok" THEN r
             ELSE second_pass(code, i + 1, r.variables, r.variables_number,
                              [memory EXCEPT ![i] = r.value])

\* assemble_from_assembly: Result<[u16; 100], Error>
assemble_from_assembly(text) ==
    LET first == first_pass(matched_lines(text), 0, <<>>, <<>>)
        second == second_pass(first.code, 0, first.variables, 0,
                              [a \in 0 .. 99 |-> 0])
    IN  IF first.tag # "Ok"
        THEN AssemblyErr(first.tag, first.word, first.at)
        ELSE IF second.tag # "Ok"
        THEN AssemblyErr(second.tag, second.word, second.at)
        ELSE AssemblyOk(second.memory)

(* ------------------------------------------------------------------ *)
(* The memory images a behaviour starts from                           *)
(* ------------------------------------------------------------------ *)

Images ==
    {[a \in Addresses |->
        IF a < ProgLen THEN p[a + 1]
        ELSE IF a = MemLen - 1 THEN t ELSE 0] :
     p \in [1 .. ProgLen -> ProgWords], t \in TailWords}

(* ------------------------------------------------------------------ *)
(* Behaviours: a caller that owns one Computer                         *)
(* ------------------------------------------------------------------ *)

\* no Memory and no outcome of load_from_buffer
NoMemory == <<>>

NoLoad == [tag |-> "None", memory |-> NoMemory, at |-> 0, number |-> 0]

\* the caller holds nothing of the codec
CodecIdle ==
    /\ cd_pc = "idle"
    /\ cd_memory = NoMemory
    /\ cd_buffer = <<>>
    /\ cd_loaded = NoLoad
    /\ cd_padded = NoLoad

\* an empty Test that is not being run
NoTest ==
    [max_cycles |-> 0, inputs |-> <<>>, outputs |-> <<>>,
     char_inputs |-> <<>>, char_outputs |-> <<>>]

TestIdle ==
    /\ test = NoTest
    /\ cycles = 0
    /\ t_pc = "idle"
    /\ t_ret = NoRet
    /\ t_script = NoTest
    /\ t_fed = <<>>
    /\ t_got = <<>>
    /\ t_steps = 0

\* no Parser
NoParser == [parsed |-> <<>>, instruction_number |-> 0]

\* the caller holds no Parser
ParserIdle ==
    /\ parser = NoParser
    /\ p_pc = "idle"
    /\ p_line = <<>>
    /\ p_ret = LineOk
    /\ p_before = NoParser
    /\ p_text = <<>>

\* no assembler has been called
NoAssembly == [tag |-> "None", detail |-> "None", at |-> 0, memory |-> NoMemory]

AssemblerIdle ==
    /\ a_pc = "idle"
    /\ a_text = <<>>
    /\ a_ret = NoAssembly

\* what a behaviour of the computer alone leaves untouched
not_computer == <<codec_vars, test_vars, parser_vars, assembler_vars>>

Init ==
    /\ computer \in {new(m) : m \in Images}
    /\ last_op = "new"
    /\ pre_state = "None"
    /\ result = "None"
    /\ io_val = 0
    /\ run_pc = "idle"
    /\ run_ret = "None"
    /\ nsteps = 0
    /\ CodecIdle
    /\ TestIdle
    /\ ParserIdle
    /\ AssemblerIdle

\* the caller is not inside Computer::run
Free == run_pc # "loop"

\* a fetch-execute cycle may still be performed
Budget == computer.state = "Running" => nsteps < MaxSteps

Count == IF computer.state = "Running" THEN nsteps + 1 ELSE nsteps

Step ==
    /\ Free
    /\ Budget
    /\ computer' = step(computer)
    /\ result' = computer'.state
    /\ last_op' = "step"
    /\ pre_state' = computer.state
    /\ io_val' = 0
    /\ nsteps' = Count
    /\ UNCHANGED <<run_pc, run_ret, not_computer>>

Input ==
    \E v \in InputValues :
        /\ Free
        /\ computer' = input(computer, v).c
        /\ result' = input(computer, v).r
        /\ last_op' = "input"
        /\ pre_state' = computer.state
        /\ io_val' = v
        /\ UNCHANGED <<run_pc, run_ret, nsteps, not_computer>>

Output ==
    /\ Free
    /\ computer' = output(computer).c
    /\ result' = output(computer).r
    /\ last_op' = "output"
    /\ pre_state' = computer.state
    /\ io_val' = IF output(computer).r = "Ok" THEN computer.register ELSE 0
    /\ UNCHANGED <<run_pc, run_ret, nsteps, not_computer>>

InputChar ==
    \E v \in InputValues :
        /\ Free
        /\ computer' = input_char(computer, v).c
        /\ result' = input_char(computer, v).r
        /\ last_op' = "input_char"
        /\ pre_state' = computer.state
        /\ io_val' = v
        /\ UNCHANGED <<run_pc, run_ret, nsteps, not_computer>>

OutputChar ==
    /\ Free
    /\ computer' = output_char(computer).c
    /\ result' = output_char(computer).r
    /\ last_op' = "output_char"
    /\ pre_state' = computer.state
    /\ io_val' =
           IF output_char(computer).r = "Ok" THEN computer.register ELSE 0
    /\ UNCHANGED <<run_pc, run_ret, nsteps, not_computer>>

Reset ==
    /\ Free
    /\ computer' = reset(computer)
    /\ result' = "Ok"
    /\ last_op' = "reset"
    /\ pre_state' = computer.state
    /\ io_val' = 0
    /\ UNCHANGED <<run_pc, run_ret, nsteps, not_computer>>

\* the caller enters Computer::run
RunEnter ==
    /\ Free
    /\ run_pc' = "loop"
    /\ run_ret' = "None"
    /\ last_op' = "run"
    /\ pre_state' = computer.state
    /\ result' = "None"
    /\ io_val' = 0
    /\ UNCHANGED <<computer, nsteps, not_computer>>

\* one evaluation of the loop condition of Computer::run, and the return
\* of self.state when the loop is left
RunIter ==
    /\ run_pc = "loop"
    /\ Budget
    /\ computer' = step(computer)
    /\ nsteps' = Count
    /\ last_op' = "run_step"
    /\ pre_state' = computer.state
    /\ io_val' = 0
    /\ IF RunContinues(computer'.state)
       THEN /\ run_pc' = "loop"
            /\ run_ret' = run_ret
            /\ result' = "None"
       ELSE /\ run_pc' = "done"
            /\ run_ret' = computer'.state
            /\ result' = computer'.state
    /\ UNCHANGED not_computer

Next ==
    \/ Step
    \/ Input
    \/ Output
    \/ InputChar
    \/ OutputChar
    \/ Reset
    \/ RunEnter
    \/ RunIter

Spec == Init /\ [][Next]_vars

TypeOK ==
    /\ computer.state \in State
    /\ computer.counter \in 0 .. MemLen
    /\ computer.register \in ThreeDigitNumber
    /\ \A a \in Addresses : computer.memory[a] \in ThreeDigitNumber
    /\ computer.negative_flag \in BOOLEAN
    /\ computer.extended_mode_flag \in BOOLEAN
    /\ run_pc \in {"idle", "loop", "done"}
    /\ nsteps \in 0 .. MaxSteps

(* ------------------------------------------------------------------ *)
(* Behaviours: a caller of the codec                                   *)
(* ------------------------------------------------------------------ *)

\* the memory images given to save_to_buffer
CodecImages ==
    {[a \in Addresses |->
        IF a < CodecLen THEN p[a + 1]
        ELSE IF a = MemLen - 1 THEN t ELSE 0] :
     p \in [1 .. CodecLen -> CodecValues], t \in CodecValues}

\* the image of the test full_buffer of save.rs: every word is 1
AllOnes == [a \in Addresses |-> 1]

Zeros(n) == [i \in 1 .. n |-> 0]

\* the buffer of the test full_buffer of load.rs: the most significant bit
\* of every ten-bit sequence is set
TopBits ==
    [k \in 1 .. MAX_FILE_SIZE |->
        LET shift == (2 * (k - 1)) % 10
        IN  IF shift < 8 THEN 128 \div (2 ^ shift) ELSE 0]

\* the freely chosen part of a buffer
Chunks == UNION {[1 .. n -> ByteValues] : n \in 0 .. BufLen}

\* the number of zero bytes in front of the freely chosen part: none, up
\* to one group of five bytes, or enough to end the buffer around
\* MAX_FILE_SIZE
LeadLens == (0 .. 5) \cup ((MAX_FILE_SIZE - 5) .. (MAX_FILE_SIZE + 1))

\* the byte buffers given to load_from_buffer
CodecBuffers ==
    {Zeros(k) \o c : k \in LeadLens, c \in Chunks}

\* the computer of a behaviour that does not run one
ComputerIdle ==
    /\ computer = new(ZeroMemory)
    /\ last_op = "new"
    /\ pre_state = "None"
    /\ result = "None"
    /\ io_val = 0
    /\ run_pc = "idle"
    /\ run_ret = "None"
    /\ nsteps = 0

\* what a behaviour of the codec alone leaves untouched
not_codec == <<computer_vars, test_vars, parser_vars, assembler_vars>>

CodecInit ==
    /\ ComputerIdle
    /\ TestIdle
    /\ ParserIdle
    /\ AssemblerIdle
    /\ cd_loaded = LoadOk(ZeroMemory)
    /\ cd_padded = LoadOk(ZeroMemory)
    /\ \/ /\ cd_pc = "image"
          /\ cd_memory \in CodecImages \cup {AllOnes}
          /\ cd_buffer = <<>>
       \/ /\ cd_pc = "bytes"
          /\ cd_memory = ZeroMemory
          /\ cd_buffer \in CodecBuffers \cup {TopBits}

\* save_to_file: save_to_buffer on a zeroed buffer
Save ==
    /\ cd_pc = "image"
    /\ cd_buffer' = save_to_buffer(ZeroBuffer, cd_memory)
    /\ cd_pc' = "saved"
    /\ UNCHANGED <<cd_memory, cd_loaded, cd_padded, not_codec>>

\* load_from_buffer on the bytes as they are
Load ==
    /\ cd_pc \in {"saved", "bytes"}
    /\ cd_loaded' = load_from_buffer(cd_buffer)
    /\ cd_pc' = IF cd_pc = "saved" THEN "reloaded" ELSE "loaded"
    /\ UNCHANGED <<cd_memory, cd_buffer, cd_padded, not_codec>>

\* load_from_buffer on the whole zeroed array the bytes were read into
\* (`let mut buffer = [0; MAX_FILE_SIZE]` of load_from_file)
LoadPadded ==
    /\ cd_pc \in {"reloaded", "loaded"}
    /\ Len(cd_buffer) <= MAX_FILE_SIZE
    /\ cd_padded' =
           load_from_buffer(
               cd_buffer \o Zeros(MAX_FILE_SIZE - Len(cd_buffer)))
    /\ cd_pc' = IF cd_pc = "reloaded" THEN "repadded" ELSE "padded"
    /\ UNCHANGED <<cd_memory, cd_buffer, cd_loaded, not_codec>>

CodecNext ==
    \/ Save
    \/ Load
    \/ LoadPadded

SpecCodec == CodecInit /\ [][CodecNext]_vars

(* ------------------------------------------------------------------ *)
(* Behaviours: a caller of Test::run                                   *)
(* ------------------------------------------------------------------ *)

\* the memories under test; cell 99 holds LDA 99, so that a branch to it
\* runs off the end of the memory
TestImages ==
    {[a \in Addresses |->
        IF a < TestProgLen THEN p[a + 1]
        ELSE IF a = MemLen - 1 THEN 599 ELSE 0] :
     p \in [1 .. TestProgLen -> TestWords]}

Tests ==
    {[max_cycles |-> n, inputs |-> i, outputs |-> o,
      char_inputs |-> ch[1], char_outputs |-> ch[2]] :
     n \in 0 .. MaxCycles, i \in InputScripts, o \in OutputScripts,
     ch \in CharScripts}

\* `computer.reset(); test.run(&mut computer)` is about to be called
TestInit ==
    /\ computer \in {new(m) : m \in TestImages}
    /\ last_op = "new"
    /\ pre_state = "None"
    /\ result = "None"
    /\ io_val = 0
    /\ run_pc = "idle"
    /\ run_ret = "None"
    /\ nsteps = 0
    /\ CodecIdle
    /\ ParserIdle
    /\ AssemblerIdle
    /\ test \in Tests
    /\ t_script = test
    /\ cycles = 0
    /\ t_pc = "call"
    /\ t_ret = NoRet
    /\ t_fed = <<>>
    /\ t_got = <<>>
    /\ t_steps = 0

\* what Test::run leaves untouched
test_frame ==
    <<last_op, pre_state, result, io_val, run_pc, run_ret, nsteps,
      codec_vars, parser_vars, assembler_vars, t_script>>

\* Test::run: `let mut cycles = 0;`
TestRunEnter ==
    /\ t_pc = "call"
    /\ cycles' = 0
    /\ t_pc' = "loop"
    /\ UNCHANGED <<computer, test, t_ret, t_fed, t_got, t_steps, test_frame>>

\* Test::run: one turn of `while !Self::step(...)? {}` and, when the loop
\* ends, the rest of the function
TestRunIter ==
    /\ t_pc = "loop"
    /\ LET r == test_step(computer, test, cycles)
           stepped == ~BudgetSpent(cycles, test.max_cycles)
           suspended == step(computer).state
       IN  /\ computer' = r.computer
           /\ test' = r.test
           /\ cycles' = r.cycles
           /\ t_steps' = IF stepped THEN t_steps + 1 ELSE t_steps
           /\ t_fed' = IF stepped /\ suspended = "AwaitingInput"
                          /\ r.computer.state = "Running"
                       THEN Append(t_fed, r.computer.register)
                       ELSE t_fed
           /\ t_got' = IF stepped /\ suspended = "AwaitingOutput"
                          /\ r.computer.state = "Running"
                       THEN Append(t_got, r.computer.register)
                       ELSE t_got
           /\ IF r.err.tag # "None"
              THEN t_pc' = "done" /\ t_ret' = r.err
              ELSE IF r.done
              THEN t_pc' = "done" /\ t_ret' = AfterLoop(r.test, r.cycles)
              ELSE t_pc' = "loop" /\ t_ret' = t_ret
    /\ UNCHANGED test_frame

TestNext ==
    \/ TestRunEnter
    \/ TestRunIter

SpecTest == TestInit /\ [][TestNext]_vars

(* ------------------------------------------------------------------ *)
(* Behaviours: a caller of Parser::parse_line                          *)
(* ------------------------------------------------------------------ *)

\* what the lines are put together from: two mnemonics, a number, a name,
\* white space and the comment markers
Pieces ==
    {<<"O", "U", "T">>, <<"a", "d", "d">>, <<"5">>, <<"x">>,
     <<" ">>, <<"\t">>, <<"#">>, <<";">>}

RECURSIVE Flatten(_)
Flatten(parts) ==
    IF parts = <<>> THEN <<>> ELSE Head(parts) \o Flatten(Tail(parts))

PieceLines ==
    {Flatten(parts) :
        parts \in UNION {[1 .. n -> Pieces] : n \in 0 .. LineLen}}

\* the words of the lines made of whole words: a mnemonic in either case,
\* a number that fits three digits, one that does not, and a name
LineWords ==
    {<<"O", "U", "T">>, <<"a", "d", "d">>, <<"5">>,
     <<"1", "0", "0", "0">>, <<"x">>}

\* the words with one space between each two
RECURSIVE Join(_)
Join(words) ==
    IF words = <<>> THEN <<>>
    ELSE IF Len(words) = 1 THEN Head(words)
    ELSE Head(words) \o <<" ">> \o Join(Tail(words))

\* lines of one word up to one word more than a line may hold
WordLines ==
    {Join(words) :
        words \in UNION {[1 .. n -> LineWords] : n \in 1 .. WordsMax + 1}}

\* every mnemonic alone, with an operand, and both again behind a label
MnemonicLines ==
    UNION {{Join(<<m[1]>>), Join(<<m[1], <<"5">>>>), Join(<<m[1], <<"x">>>>),
            Join(<<<<"x">>, m[1]>>), Join(<<<<"x">>, m[1], <<"5">>>>)} :
           m \in MnemonicTable}

Lines == PieceLines \cup WordLines \cup MnemonicLines

\* the line the Parser is filled with
FillLine == <<"O", "U", "T">>

\* the Parser after n more lines FillLine
RECURSIVE Fill(_, _)
Fill(p, n) ==
    IF n = 0 THEN p
    ELSE IF n = 1 THEN parse_line(p, FillLine).parser
    ELSE LET first == Fill(p, n \div 2)
         IN  IF first.instruction_number >= 0
             THEN Fill(first, n - (n \div 2))
             ELSE first

\* how many lines the Parser has taken when the line is given
FillCounts == {0, 1, Capacity - 1, Capacity}

ParserInit ==
    /\ ComputerIdle
    /\ CodecIdle
    /\ TestIdle
    /\ AssemblerIdle
    /\ parser \in {Fill(parser_new, n) : n \in FillCounts}
    /\ p_text = <<>>
    /\ p_pc = "ready"
    /\ p_line = <<>>
    /\ p_ret = LineOk
    /\ p_before = parser

\* what a behaviour of the parser alone leaves untouched
not_parser == <<computer_vars, codec_vars, test_vars, assembler_vars>>

ParseLine ==
    \E line \in Lines :
        /\ p_pc = "ready"
        /\ parser' = parse_line(parser, line).parser
        /\ p_ret' = parse_line(parser, line).ret
        /\ p_line' = line
        /\ p_before' = parser
        /\ p_pc' = "parsed"
        /\ UNCHANGED <<p_text, not_parser>>

ParserNext == ParseLine

SpecParser == ParserInit /\ [][ParserNext]_vars

(* ------------------------------------------------------------------ *)
(* Behaviours: a caller of Parser::parse_text and resolve_label        *)
(* ------------------------------------------------------------------ *)

\* the lines the texts are made of: instructions with and without labels,
\* an empty line, a comment, and two lines parse_line refuses
TextLines ==
    {<<"O", "U", "T">>,
     <<"x", " ", "O", "U", "T">>,
     <<"x", " ", "H", "L", "T">>,
     <<"y", " ", "a", "d", "d", " ", "x">>,
     <<>>,
     <<";", "x">>,
     <<"a", "d", "d">>,
     <<"5", " ", "O", "U", "T">>}

\* the lines with a line feed between each two
RECURSIVE JoinLines(_)
JoinLines(ls) ==
    IF ls = <<>> THEN <<>>
    ELSE IF Len(ls) = 1 THEN Head(ls)
    ELSE Head(ls) \o <<"\n">> \o JoinLines(Tail(ls))

Texts ==
    {JoinLines(ls) :
        ls \in UNION {[1 .. n -> TextLines] : n \in 0 .. TextLen}}

\* the labels resolve_label is asked for
LabelNames == {<<"x">>, <<"y">>, <<"X">>}

TextInit ==
    /\ ComputerIdle
    /\ CodecIdle
    /\ TestIdle
    /\ AssemblerIdle
    /\ parser = NoParser
    /\ p_pc = "text"
    /\ p_line = <<>>
    /\ p_ret = LineOk
    /\ p_before = NoParser
    /\ p_text = <<>>

ParseText ==
    \E text \in Texts :
        /\ p_pc = "text"
        /\ parser' = parse_text(text).parser
        /\ p_ret' = parse_text(text).ret
        /\ p_text' = text
        /\ p_pc' = "text_parsed"
        /\ UNCHANGED <<p_line, p_before, not_parser>>

\* resolve_label on the Parser parse_text returned
ResolveLabel ==
    \E label \in LabelNames :
        /\ p_pc = "text_parsed"
        /\ p_ret.tag = "Ok"
        /\ p_ret' = resolve_label(parser, label)
        /\ p_line' = label
        /\ p_pc' = "resolved"
        /\ UNCHANGED <<parser, p_before, p_text, not_parser>>

TextNext == ParseText \/ ResolveLabel

SpecText == TextInit /\ [][TextNext]_vars

(* ------------------------------------------------------------------ *)
(* Behaviours: a caller of NumberAssembler::assemble_from_text         *)
(* ------------------------------------------------------------------ *)

\* the lines of the number texts: numbers bare, behind white space and in
\* front of a comment, a number too large, a word, and lines without a
\* number
NumberLines ==
    {<<"5">>, <<"9", "9", "9">>, <<" ", "7">>, <<"5", " ", ";", "c">>,
     <<"1", "0", "0", "0">>, <<"x">>,
     <<>>, <<"#", "c">>, <<" ">>, <<"\t", ";", "c">>}

NumberTexts ==
    {JoinLines(ls) :
        ls \in UNION {[1 .. n -> NumberLines] : n \in 0 .. TextLen}}

\* the line the long texts are filled with, as in test::full_numbers
FullLine == <<"9", "0", "2">>

\* n lines FullLine, each ended by a line feed
RECURSIVE FullLines(_)
FullLines(n) ==
    IF n = 0 THEN <<>>
    ELSE IF n = 1 THEN FullLine \o <<"\n">>
    ELSE FullLines(n \div 2) \o FullLines(n - (n \div 2))

\* what follows the filled part: a number, an empty line, a comment
TailLines == {<<"5">>, <<>>, <<"#", "c">>}

\* texts of about 100 numeric lines with blank lines, comments and
\* numbers behind them
LongTexts ==
    {FullLines(n) \o JoinLines(ls) \o end :
        n \in {98, 99, 100},
        ls \in UNION {[1 .. k -> TailLines] : k \in 0 .. TailLen},
        end \in {<<>>, <<"\n">>}}

NumbersInit ==
    /\ ComputerIdle
    /\ CodecIdle
    /\ TestIdle
    /\ ParserIdle
    /\ a_pc = "numbers"
    /\ a_text = <<>>
    /\ a_ret = NoAssembly

\* what a behaviour of an assembler alone leaves untouched
not_assembler == <<computer_vars, codec_vars, test_vars, parser_vars>>

AssembleFromText ==
    \E text \in NumberTexts \cup LongTexts :
        /\ a_pc = "numbers"
        /\ a_ret' = assemble_from_text(text)
        /\ a_text' = text
        /\ a_pc' = "numbers_done"
        /\ UNCHANGED not_assembler

NumbersNext == AssembleFromText

SpecNumbers == NumbersInit /\ [][NumbersNext]_vars

(* ------------------------------------------------------------------ *)
(* Behaviours: a caller of assembler::assemble_from_assembly           *)
(* ------------------------------------------------------------------ *)

\* the lines of the assembly texts: instructions with numbers and names as
\* operands, labels, numbers at and over the limits, and a comment
AssemblyLines ==
    {<<"O", "U", "T">>,
     <<"i", "n", "p">>,
     <<"H", "L", "T">>,
     <<"x", " ", "a", "d", "d", " ", "5">>,
     <<"s", "t", "a", " ", "y">>,
     <<"B", "R", "Z", " ", "x">>,
     <<"l", "d", "a", " ", "9", "9">>,
     <<"l", "d", "a", " ", "1", "0", "0">>,
     <<"x", " ", "D", "A", "T", " ", "9", "9", "9">>,
     <<"D", "A", "T", " ", "1", "0", "0", "0">>,
     <<"#", " ", "c">>}

AssemblyTexts ==
    {JoinLines(ls) :
        ls \in UNION {[1 .. n -> AssemblyLines] : n \in 0 .. TextLen}}

AssemblyInit ==
    /\ ComputerIdle
    /\ CodecIdle
    /\ TestIdle
    /\ ParserIdle
    /\ a_pc = "assembly"
    /\ a_text = <<>>
    /\ a_ret = NoAssembly

AssembleFromAssembly ==
    \E text \in AssemblyTexts :
        /\ a_pc = "assembly"
        /\ a_ret' = assemble_from_assembly(text)
        /\ a_text' = text
        /\ a_pc' = "assembly_done"
        /\ UNCHANGED not_assembler

AssemblyNext == AssembleFromAssembly

SpecAssembly == AssemblyInit /\ [][AssemblyNext]_vars

(* ------------------------------------------------------------------ *)
(* Properties                                                          *)
(* ------------------------------------------------------------------ *)

\* the step now taken is a call of Computer::step (by the caller or from
\* inside Computer::run) that fetches and executes a word
Executes ==
    /\ last_op' \in {"step", "run_step"}
    /\ computer.state = "Running"
    /\ computer.counter < 100

Word == computer.memory[computer.counter]

Opcode == Word \div 100

Addr == Word % 100

\* C1: Computer::run returns only once the state is no longer Running: the
\* state it returns is never Running.
C1_RunNeverReturnsRunning == run_pc = "done" => run_ret # "Running"

\* C2: step() called on a computer that is not Running returns the current
\* state and changes no field of the computer, however often it is repeated.
C2_StepNotRunningIsNoOp ==
    [][(last_op' = "step" /\ computer.state # "Running")
          => (result' = computer.state /\ computer' = computer)]_vars

C2_Witness ==
    /\ last_op = "step"
    /\ pre_state = "AwaitingOutput"
    /\ result = "AwaitingOutput"
    /\ computer.state = "AwaitingOutput"

\* C3: Halted, ReachedEnd and InvalidInstruction are absorbing: from such a
\* state every call other than reset() leaves the whole computer unchanged,
\* and the input and output calls return their error.
C3_TerminalAbsorbing ==
    [][(computer.state \in {"Halted", "ReachedEnd", "InvalidInstruction"}
          /\ last_op' # "reset")
          => /\ computer' = computer
             /\ last_op' = "step" => result' = computer.state
             /\ last_op' = "input" => result' = "UnexpectedInput"
             /\ last_op' = "output" => result' = "NoOutput"
             /\ last_op' = "input_char" => result' = "UnexpectedCharInput"
             /\ last_op' = "output_char" => result' = "NoCharOutput"]_vars

C3_Witness ==
    /\ last_op = "input"
    /\ pre_state = "ReachedEnd"
    /\ result = "UnexpectedInput"
    /\ computer.state = "ReachedEnd"
    /\ computer.counter = 100

\* C4: ADD sets the register to (register + memory[address]) mod 1000 and
\* keeps the negative flag; SUB sets the negative flag to
\* register < memory[address] and the register to
\* (register - memory[address] + 1000) mod 1000; both advance the counter by
\* one and leave memory and state as they are.
C4_AddSub ==
    [][Executes =>
          /\ Opcode = 1 =>
                computer' =
                    [computer EXCEPT
                        !.register =
                            (computer.register + computer.memory[Addr]) % 1000,
                        !.counter = @ + 1]
          /\ Opcode = 2 =>
                computer' =
                    [computer EXCEPT
                        !.register =
                            (computer.register - computer.memory[Addr] + 1000)
                                % 1000,
                        !.negative_flag =
                            computer.register < computer.memory[Addr],
                        !.counter = @ + 1]]_vars

\* IN; SUB 1 with the input 0: 0 - 201 wraps to 799 and sets the flag
C4_Witness ==
    /\ computer.memory[0] = 901
    /\ computer.memory[1] = 201
    /\ computer.counter = 2
    /\ computer.register = 799
    /\ computer.negative_flag
    /\ computer.state = "Running"
    /\ last_op = "step"

\* C5: BR sets the counter to the address; BRZ does so exactly when the
\* register is 0 and BRP exactly when the negative flag is clear; a taken
\* branch leaves the counter equal to the address, a branch not taken
\* advances it by one; nothing else changes.
C5_Branches ==
    [][Executes =>
          /\ Opcode = 6 => computer' = [computer EXCEPT !.counter = Addr]
          /\ Opcode = 7 =>
                computer' =
                    [computer EXCEPT
                        !.counter =
                            IF computer.register = 0 THEN Addr ELSE @ + 1]
          /\ Opcode = 8 =>
                computer' =
                    [computer EXCEPT
                        !.counter =
                            IF ~computer.negative_flag THEN Addr ELSE @ + 1]
      ]_vars

\* SUB 1; BRP 0: the subtraction underflows and the branch is not taken
C5_Witness ==
    /\ computer.memory[0] = 201
    /\ computer.memory[1] = 800
    /\ computer.counter = 2
    /\ computer.negative_flag
    /\ computer.state = "Running"
    /\ last_op = "step"

\* C6: word 901 takes a Running computer to AwaitingInput with the counter
\* advanced by one and the register untouched; input(v) succeeds exactly in
\* AwaitingInput, where the register becomes v and the state Running; in
\* every other state it returns UnexpectedInput and changes nothing.
C6_Input ==
    [][/\ (Executes /\ Word = 901) =>
              computer' =
                  [computer EXCEPT
                      !.state = "AwaitingInput", !.counter = @ + 1]
       /\ last_op' = "input" =>
              IF computer.state = "AwaitingInput"
              THEN /\ result' = "Ok"
                   /\ computer' =
                          [computer EXCEPT
                              !.register = io_val', !.state = "Running"]
              ELSE /\ result' = "UnexpectedInput"
                   /\ computer' = computer]_vars

C6_Witness ==
    /\ last_op = "input"
    /\ pre_state = "AwaitingInput"
    /\ result = "Ok"
    /\ io_val = 999
    /\ computer.register = 999
    /\ computer.state = "Running"

\* C7: word 902 takes a Running computer to AwaitingOutput; output()
\* succeeds exactly in AwaitingOutput, where it returns the register, sets
\* the state to Running and leaves register, memory and counter alone; in
\* every other state it returns NoOutput and changes nothing.
C7_Output ==
    [][/\ (Executes /\ Word = 902) => computer'.state = "AwaitingOutput"
       /\ last_op' = "output" =>
              IF computer.state = "AwaitingOutput"
              THEN /\ result' = "Ok"
                   /\ io_val' = computer.register
                   /\ computer' = [computer EXCEPT !.state = "Running"]
              ELSE /\ result' = "NoOutput"
                   /\ computer' = computer]_vars

\* IN; OUT with the input 999
C7_Witness ==
    /\ last_op = "output"
    /\ pre_state = "AwaitingOutput"
    /\ result = "Ok"
    /\ io_val = 999
    /\ computer.register = 999
    /\ computer.state = "Running"

\* C8: a word with opcode 4, or with opcode 9 and an address other than 1
\* and 2 (and other than 11 and 12 while the extended mode flag is set),
\* puts the computer in InvalidInstruction and changes nothing else: the
\* counter still points at the word.
C8_InvalidInstruction ==
    [][(/\ Executes
        /\ \/ Opcode = 4
           \/ /\ Opcode = 9
              /\ Addr \notin {1, 2}
              /\ computer.extended_mode_flag => Addr \notin {11, 12})
          => computer' = [computer EXCEPT !.state = "InvalidInstruction"]
      ]_vars

\* EXT; 903
C8_Witness ==
    /\ computer.state = "InvalidInstruction"
    /\ pre_state = "Running"
    /\ computer.extended_mode_flag
    /\ computer.counter = 1
    /\ computer.memory[1] = 903
    /\ result = "InvalidInstruction"

\* C9: every word with opcode 0 halts the computer, except word 010
\* executed at address 0, which sets the extended mode flag and leaves the
\* state Running; word 010 at any other address halts.
C9_HaltUnlessFirstExt ==
    [][(Executes /\ Opcode = 0) =>
          IF Word = 10 /\ computer.counter = 0
          THEN /\ computer'.extended_mode_flag
               /\ computer'.state = "Running"
          ELSE computer'.state = "Halted"]_vars

\* C10: words 911 and 912 lead to AwaitingCharInput and AwaitingCharOutput
\* only while the extended mode flag is set, and to InvalidInstruction
\* otherwise; the flag is set by executing word 010 only and cleared by
\* reset() only; input_char and output_char succeed in their own Awaiting
\* state only and otherwise return their error and change nothing.
C10_CharIo ==
    [][/\ (Executes /\ Word = 911) =>
              computer' =
                  IF computer.extended_mode_flag
                  THEN [computer EXCEPT
                           !.state = "AwaitingCharInput", !.counter = @ + 1]
                  ELSE [computer EXCEPT !.state = "InvalidInstruction"]
       /\ (Executes /\ Word = 912) =>
              computer' =
                  IF computer.extended_mode_flag
                  THEN [computer EXCEPT
                           !.state = "AwaitingCharOutput", !.counter = @ + 1]
                  ELSE [computer EXCEPT !.state = "InvalidInstruction"]
       /\ (~computer.extended_mode_flag /\ computer'.extended_mode_flag)
              => (Executes /\ Word = 10)
       /\ (computer.extended_mode_flag /\ ~computer'.extended_mode_flag)
              => last_op' = "reset"
       /\ last_op' = "input_char" =>
              IF computer.state = "AwaitingCharInput"
              THEN /\ result' = "Ok"
                   /\ computer' =
                          [computer EXCEPT
                              !.register = io_val', !.state = "Running"]
              ELSE /\ result' = "UnexpectedCharInput"
                   /\ computer' = computer
       /\ last_op' = "output_char" =>
              IF computer.state = "AwaitingCharOutput"
              THEN /\ result' = "Ok"
                   /\ io_val' = computer.register
                   /\ computer' = [computer EXCEPT !.state = "Running"]
              ELSE /\ result' = "NoCharOutput"
                   /\ computer' = computer]_vars

\* EXT; INA, then input_char(999)
C10_Witness ==
    /\ last_op = "input_char"
    /\ pre_state = "AwaitingCharInput"
    /\ result = "Ok"
    /\ computer.extended_mode_flag
    /\ computer.register = 999
    /\ computer.state = "Running"

\* C11: reset() sets the state to Running, the counter and the register to
\* 0 and both flags to false, and leaves every memory cell as it is at the
\* time of the call, cells overwritten by STO included.
C11_Reset ==
    [][last_op' = "reset" =>
          /\ computer'.state = "Running"
          /\ computer'.counter = 0
          /\ computer'.register = 0
          /\ computer'.negative_flag = FALSE
          /\ computer'.extended_mode_flag = FALSE
          /\ \A a \in 0 .. 99 : computer'.memory[a] = computer.memory[a]
          /\ DOMAIN computer'.memory = 0 .. 99]_vars

\* IN; STO 1 with the input 999, then reset(): cell 1 keeps the stored
\* 999, which no loaded image holds
C11_Witness ==
    /\ last_op = "reset"
    /\ computer.memory[0] = 901
    /\ computer.memory[1] = 999
    /\ computer.state = "Running"
    /\ computer.counter = 0
    /\ computer.register = 0

\* byte j (from 0) of a buffer, absent bytes being zero
ByteAt(B, j) == IF j < Len(B) THEN B[j + 1] ELSE 0

\* the i-th (from 0) ten-bit field of the big-endian bit string of B
Field(B, i) ==
    LET j == (10 * i) \div 8
        o == (10 * i) % 8
    IN  ((ByteAt(B, j) * 256 + ByteAt(B, j + 1)) \div (2 ^ (6 - o))) % 1024

\* byte j (from 0) of the big-endian bit string of the 100 ten-bit words
PackedByte(M, j) ==
    LET i == (8 * j) \div 10
        r == (8 * j) % 10
        next == IF i + 1 < 100 THEN M[i + 1] ELSE 0
    IN  ((M[i] * 1024 + next) \div (2 ^ (12 - r))) % 256

\* C12: for every memory image M, loading what save_to_buffer returns for
\* M on a zeroed buffer succeeds and gives back exactly M.
C12_RoundTrip ==
    cd_pc \in {"reloaded", "repadded"} =>
        /\ cd_loaded.tag = "Ok"
        /\ cd_loaded.memory = cd_memory

C12_Witness ==
    /\ cd_pc = "reloaded"
    /\ cd_memory[2] = 1
    /\ cd_memory[4] = 999
    /\ cd_memory[99] = 1
    /\ Len(cd_buffer) = 125
    /\ cd_loaded.memory[4] = 999

\* C13: a buffer longer than 125 bytes is refused with BufferTooLarge; a
\* buffer of at most 125 bytes in which some ten-bit word exceeds 999, the
\* word the last byte contributes to included, is refused with
\* InvalidNumber; every memory returned holds numbers in 0 .. 999 only.
C13_LoadRejectsInvalidNumbers ==
    cd_pc \in {"loaded", "padded", "reloaded", "repadded"} =>
        /\ Len(cd_buffer) > 125 => cd_loaded.tag = "BufferTooLarge"
        /\ (Len(cd_buffer) <= 125
              /\ \E i \in 0 .. 99 : Field(cd_buffer, i) > 999)
              => cd_loaded.tag = "InvalidNumber"
        /\ cd_loaded.tag = "Ok" =>
              \A a \in 0 .. 99 : cd_loaded.memory[a] \in 0 .. 999

\* C14: save_to_buffer on a zeroed buffer returns the packed bytes without
\* their trailing zero bytes: at most 125 bytes, the last of them not zero,
\* none at all for the all-zero image.
C14_SaveTrims ==
    cd_pc \in {"saved", "reloaded", "repadded"} =>
        /\ Len(cd_buffer) <= 125
        /\ Len(cd_buffer) > 0 => cd_buffer[Len(cd_buffer)] # 0
        /\ \A j \in 0 .. 124 : ByteAt(cd_buffer, j) = PackedByte(cd_memory, j)
        /\ (\A a \in 0 .. 99 : cd_memory[a] = 0) => Len(cd_buffer) = 0

\* the image whose only non-zero word is a 1 at address 0 packs to two
\* bytes
C14_Witness ==
    /\ cd_pc = "saved"
    /\ cd_memory[0] = 1
    /\ Len(cd_buffer) = 2
    /\ cd_buffer[2] = 64

\* C15: load_from_buffer gives the same outcome for a buffer of at most
\* 125 bytes and for that buffer followed by zero bytes up to 125 bytes.
C15_AbsentBytesAreZero ==
    cd_pc \in {"padded", "repadded"} => cd_padded = cd_loaded

\* p is an initial part of s
IsPrefix(p, s) ==
    /\ Len(p) <= Len(s)
    /\ \A i \in 1 .. Len(p) : p[i] = s[i]

\* what is left of s after its first n items
Rest(s, n) == SubSeq(s, n + 1, Len(s))

\* Test::run has been entered
InRun == t_pc \in {"loop", "done"}

\* the program under test has come to its end
Ended == computer.state \in {"Halted", "ReachedEnd"}

\* C16: Test::run makes at most max_cycles calls of Computer::step; a run
\* whose program ends on or before the max_cycles-th step is not failed
\* with RunOutOfCycles; a run whose program has not ended after max_cycles
\* steps, and that met no other error, fails with RunOutOfCycles after
\* max_cycles cycles, the computer having been stepped exactly max_cycles
\* times.
C16_CycleBudget ==
    InRun =>
        /\ t_steps <= t_script.max_cycles
        /\ t_pc = "loop" => cycles = t_steps /\ ~Ended
        /\ t_ret.tag = "RunOutOfCycles" =>
              /\ t_ret.after = t_script.max_cycles
              /\ t_steps = t_script.max_cycles
              /\ ~Ended
        /\ (t_pc = "done" /\ Ended) => t_ret.tag # "RunOutOfCycles"
        /\ (t_pc = "done" /\ ~Ended /\ t_steps = t_script.max_cycles
              /\ t_ret.tag \notin
                   {"RunOutOfInputs", "RunOutOfOutputs", "RunOutOfCharInputs",
                    "RunOutOfCharOutputs", "DifferentOutput",
                    "DifferentCharOutput", "ComputerError"})
              => t_ret.tag = "RunOutOfCycles"

\* BR 0 for ever, stopped after three cycles
C16_Witness ==
    /\ t_pc = "done"
    /\ computer.memory[0] = 600
    /\ t_script.max_cycles = 3
    /\ t_steps = 3
    /\ t_ret.tag = "RunOutOfCycles"
    /\ t_ret.after = 3

\* C17: the numbers the computer receives are the scripted inputs in
\* order, one taken per request, the computer running again after each;
\* a request with no input left fails with RunOutOfInputs after the cycles
\* completed before it and leaves the computer in AwaitingInput.
C17_InputsInOrder ==
    InRun =>
        /\ IsPrefix(t_fed, t_script.inputs)
        /\ test.inputs = Rest(t_script.inputs, Len(t_fed))
        /\ t_pc = "loop" => computer.state = "Running"
        /\ t_ret.tag = "RunOutOfInputs" =>
              /\ computer.state = "AwaitingInput"
              /\ t_fed = t_script.inputs
              /\ t_ret.after = t_steps - 1

\* IN, IN, HLT with the script 5, 7
C17_Witness ==
    /\ t_pc = "done"
    /\ computer.memory[0] = 901
    /\ computer.memory[1] = 901
    /\ t_script.inputs = <<5, 7>>
    /\ t_fed = <<5, 7>>
    /\ computer.register = 7
    /\ t_ret.tag = "Ok"

\* C18: the run goes on only while the numbers the computer has put out
\* are the expected outputs in order; the first that differs fails with
\* DifferentOutput carrying the expected number and the number got; one
\* put out when no expected output is left fails with RunOutOfOutputs
\* carrying it.
C18_OutputsCompared ==
    InRun =>
        /\ t_ret.tag \notin {"DifferentOutput", "RunOutOfOutputs"} =>
              /\ IsPrefix(t_got, t_script.outputs)
              /\ test.outputs = Rest(t_script.outputs, Len(t_got))
        /\ t_ret.tag = "DifferentOutput" =>
              /\ t_got # <<>>
              /\ Len(t_got) <= Len(t_script.outputs)
              /\ IsPrefix(SubSeq(t_got, 1, Len(t_got) - 1), t_script.outputs)
              /\ t_ret.got = t_got[Len(t_got)]
              /\ t_ret.expected = t_script.outputs[Len(t_got)]
              /\ t_ret.got # t_ret.expected
        /\ t_ret.tag = "RunOutOfOutputs" =>
              /\ t_got # <<>>
              /\ SubSeq(t_got, 1, Len(t_got) - 1) = t_script.outputs
              /\ t_ret.got = t_got[Len(t_got)]

\* OUT, OUT puts out 0 twice where 0, 5 is expected
C18_Witness ==
    /\ t_pc = "done"
    /\ t_script.outputs = <<0, 5>>
    /\ t_got = <<0, 0>>
    /\ t_ret.tag = "DifferentOutput"
    /\ t_ret.expected = 5
    /\ t_ret.got = 0

\* C19: Test::run returns Ok, with the number of steps taken, only when
\* the program has ended and nothing is left of the script; a program that
\* ends with something left fails with ExpectedMoreInputs,
\* ExpectedMoreOutputs, ExpectedMoreCharInputs or ExpectedMoreCharOutputs,
\* the first in that order whose items are not all taken.
C19_ExactScript ==
    t_pc = "done" =>
        /\ t_ret.tag = "Ok" =>
              /\ Ended
              /\ t_ret.after = t_steps
              /\ t_fed = t_script.inputs
              /\ t_got = t_script.outputs
              /\ test.inputs = <<>> /\ test.outputs = <<>>
              /\ test.char_inputs = <<>> /\ test.char_outputs = <<>>
        /\ Ended =>
              t_ret.tag =
                  IF test.inputs # <<>> THEN "ExpectedMoreInputs"
                  ELSE IF test.outputs # <<>> THEN "ExpectedMoreOutputs"
                  ELSE IF test.char_inputs # <<>>
                  THEN "ExpectedMoreCharInputs"
                  ELSE IF test.char_outputs # <<>>
                  THEN "ExpectedMoreCharOutputs"
                  ELSE "Ok"

\* IN, OUT, HLT given 5 and expected to put out 5, 7
C19_Witness ==
    /\ t_pc = "done"
    /\ computer.state = "Halted"
    /\ t_script.outputs = <<5, 7>>
    /\ t_got = <<5>>
    /\ t_fed = <<5>>
    /\ t_ret.tag = "ExpectedMoreOutputs"
    /\ t_ret.after = 3

\* the chars of a line in front of its first '#' or ';'
BeforeComment(line) ==
    LET marks == {i \in 1 .. Len(line) : line[i] = "#" \/ line[i] = ";"}
    IN  IF marks = {} THEN line
        ELSE SubSeq(line, 1, (CHOOSE i \in marks : \A j \in marks : i <= j) - 1)

\* nothing but white space, or nothing at all
Blank(text) == \A i \in 1 .. Len(text) : text[i] \in {" ", "\t", "\r"}

\* C20: parse_line does with a line what it does with the part in front of
\* the first '#' or ';'; when that part is empty or white space only it
\* returns Ok and leaves the Parser, its instructions and its count, as it
\* was, whatever the count, 100 included.
C20_BlankLine ==
    p_pc = "parsed" =>
        /\ [parser |-> parser, ret |-> p_ret]
               = parse_line(p_before, BeforeComment(p_line))
        /\ Blank(BeforeComment(p_line)) =>
              /\ p_ret.tag = "Ok"
              /\ parser = p_before

\* a full Parser given white space and a comment
C20_Witness ==
    /\ p_pc = "parsed"
    /\ p_before.instruction_number = 100
    /\ p_line = <<" ", ";", "O", "U", "T">>
    /\ p_ret.tag = "Ok"
    /\ parser.instruction_number = 100

\* the words of a line: what stands between white space, before any comment
WordsOf(line) == split_whitespace(BeforeComment(line))

UpperWord(word) == [i \in 1 .. Len(word) |-> to_ascii_uppercase(word[i])]

\* the mnemonics that need an operand, and those that take none
OperandMnemonics ==
    {<<"A", "D", "D">>, <<"S", "U", "B">>, <<"S", "T", "O">>,
     <<"S", "T", "A">>, <<"L", "D", "A">>, <<"B", "R">>, <<"B", "R", "A">>,
     <<"B", "R", "Z">>, <<"B", "R", "P">>, <<"D", "A", "T">>}

BareMnemonics ==
    {<<"I", "N">>, <<"I", "N", "P">>, <<"O", "U", "T">>, <<"H", "L", "T">>,
     <<"I", "N", "A">>, <<"O", "T", "A">>, <<"E", "X", "T">>}

IsMnemonic(word) == UpperWord(word) \in OperandMnemonics \cup BareMnemonics

\* a decimal number of any size
AllDigits(word) ==
    /\ word # <<>>
    /\ \A i \in 1 .. Len(word) :
          word[i] \in {"0", "1", "2", "3", "4", "5", "6", "7", "8", "9"}

\* parse_line has returned and the Parser had room for the line
ParsedWithRoom == p_pc = "parsed" /\ p_before.instruction_number < Capacity

\* C21: a line of one to three words whose first word is no mnemonic and is
\* a decimal number, of any size, fails with UnexpectedNumber.
C21_NumberNeverLabel ==
    LET words == WordsOf(p_line)
    IN  (/\ ParsedWithRoom
         /\ Len(words) \in 1 .. 3
         /\ ~IsMnemonic(words[1])
         /\ AllDigits(words[1]))
        => p_ret.tag = "UnexpectedNumber"

\* the mnemonic of a line and what follows it, the label taken off
BodyOf(words) == IF IsMnemonic(words[1]) THEN words ELSE Tail(words)

\* [label] mnemonic [operand]: an optional name, a mnemonic, and at most
\* one more word that is no mnemonic
MnemonicShape(words) ==
    /\ Len(words) >= 1
    /\ \/ IsMnemonic(words[1])
       \/ Len(words) >= 2 /\ ~AllDigits(words[1]) /\ IsMnemonic(words[2])
    /\ Len(BodyOf(words)) <= 2
    /\ Len(BodyOf(words)) = 2 => ~IsMnemonic(BodyOf(words)[2])

\* C22: a mnemonic that needs an operand and has none fails with
\* ExpectedData, one that takes no operand and has one fails with
\* UnexpectedData, and every other pair is stored with the operand as given.
C22_DataPresence ==
    LET words == WordsOf(p_line)
        body == BodyOf(words)
        needs == UpperWord(body[1]) \in OperandMnemonics
        stored == parser.parsed[p_before.instruction_number]
    IN  (ParsedWithRoom /\ MnemonicShape(words)) =>
            IF needs /\ Len(body) = 1
            THEN /\ p_ret.tag = "DataPresence"
                 /\ p_ret.detail = "ExpectedData"
            ELSE IF ~needs /\ Len(body) = 2
            THEN /\ p_ret.tag = "DataPresence"
                 /\ p_ret.detail = "UnexpectedData"
            ELSE /\ p_ret.tag = "Ok"
                 /\ stored.op = instruction_try_from(body[1]).op
                 /\ stored.data = IF Len(body) = 2
                                  THEN number_or_label(body[2])
                                  ELSE NoData

\* a DAT with nothing behind it
C22_Witness ==
    /\ p_pc = "parsed"
    /\ p_before.instruction_number = 1
    /\ p_line = <<"x", " ", "D", "A", "T">>
    /\ p_ret.tag = "DataPresence"
    /\ p_ret.detail = "ExpectedData"

\* how many of the words are mnemonics
MnemonicCount(words) ==
    Cardinality({i \in 1 .. Len(words) : IsMnemonic(words[i])})

\* C23: a line of one to three words whose first word is no number fails
\* with MultipleInstructions when, and only when, two or more of its words
\* are mnemonics.
C23_MultipleInstructions ==
    LET words == WordsOf(p_line)
    IN  (/\ ParsedWithRoom
         /\ Len(words) \in 1 .. 3
         /\ ~AllDigits(words[1]))
        => (p_ret.tag = "MultipleInstructions" <=> MnemonicCount(words) >= 2)

\* C24: a Parser never holds more than 100 instructions; the hundredth OUT
\* line is taken, and a full Parser answers every line of one to three words
\* with TooManyInstructions and stays as it was.
C24_Capacity ==
    /\ parser.instruction_number <= 100
    /\ p_pc = "parsed" =>
          LET words == WordsOf(p_line)
          IN  /\ (p_before.instruction_number = 99
                      /\ p_line = <<"O", "U", "T">>)
                 => /\ p_ret.tag = "Ok"
                    /\ parser.instruction_number = 100
                    /\ \A i \in 0 .. 99 : parser.parsed[i].op = "OUT"
              /\ (p_before.instruction_number = 100
                      /\ Len(words) \in 1 .. 3)
                 => /\ p_ret.tag = "TooManyInstructions"
                    /\ parser = p_before

\* a full Parser given one more good line
C24_Witness ==
    /\ p_pc = "parsed"
    /\ p_before.instruction_number = 100
    /\ p_line = <<"x", " ", "a", "d", "d", " ", "5">>
    /\ p_ret.tag = "TooManyInstructions"
    /\ parser.instruction_number = 100

\* the Parser after the first k of the lines were given to parse_line
RECURSIVE AfterLines(_, _)
AfterLines(ls, k) ==
    IF k = 0 THEN parser_new
    ELSE parse_line(AfterLines(ls, k - 1), ls[k]).parser

\* what parse_line answers to line k after the lines before it
AnswerAt(ls, k) == parse_line(AfterLines(ls, k - 1), ls[k]).ret

\* C25: parse_text fails at the first line parse_line refuses, with that
\* line's error and its position in the text counted from 1, blank and
\* comment lines counted too, and returns no Parser then; when no line is
\* refused it returns the Parser all the lines built.
C25_FirstFailingLine ==
    p_pc = "text_parsed" =>
        LET ls == lines(p_text)
            refused == {k \in 1 .. Len(ls) : AnswerAt(ls, k).tag # "Ok"}
            first == CHOOSE k \in refused : \A j \in refused : k <= j
        IN  IF refused = {}
            THEN p_ret.tag = "Ok" /\ parser = AfterLines(ls, Len(ls))
            ELSE /\ p_ret.tag = AnswerAt(ls, first).tag
                 /\ p_ret.detail = AnswerAt(ls, first).detail
                 /\ p_ret.at = first
                 /\ parser = NoParser

\* a comment, an instruction, then an ADD without operand: line 3, which
\* parse_line calls instruction 2
C25_Witness ==
    /\ p_pc = "text_parsed"
    /\ p_text = <<";", "x", "\n", "O", "U", "T", "\n", "a", "d", "d">>
    /\ p_ret.tag = "DataPresence"
    /\ p_ret.at = 3

\* the lines of the text that hold an instruction
InstructionLines(text) ==
    LET holds(line) == ~Blank(BeforeComment(line))
    IN  SelectSeq(lines(text), holds)

\* C26: resolve_label(l) returns the index, counted from 0, among the
\* instruction lines of a line whose label is l, and UnknownLabel when no
\* instruction line has the label l.
C26_ResolveLabel ==
    p_pc = "resolved" =>
        LET code == InstructionLines(p_text)
            defining == {k \in 1 .. Len(code) :
                            /\ WordsOf(code[k])[1] = p_line
                            /\ ~IsMnemonic(p_line)}
        IN  IF defining = {}
            THEN p_ret.tag = "UnknownLabel"
            ELSE /\ p_ret.tag = "Ok"
                 /\ p_ret.number + 1 \in defining
                 /\ Cardinality(defining) = 1 =>
                        \A k \in defining : p_ret.number = k - 1

\* a label on the second instruction, a blank line before it
C26_Witness ==
    /\ p_pc = "resolved"
    /\ p_text = <<"O", "U", "T", "\n", "\n",
                  "y", " ", "a", "d", "d", " ", "x">>
    /\ p_line = <<"y">>
    /\ p_ret = ResolveOk(1)

\* the label an instruction line defines: its first word, when that is no
\* mnemonic
Defines(line, label) ==
    /\ WordsOf(line)[1] = label
    /\ ~IsMnemonic(label)

\* two instruction lines of the text define the same label
DuplicateLabel(text) ==
    LET code == InstructionLines(text)
    IN  \E i, j \in 1 .. Len(code) :
            /\ i < j
            /\ Defines(code[j], WordsOf(code[i])[1])

\* C27: a text in which two instruction lines define the same label is
\* refused, and no Parser is returned whose table holds a label on two
\* instructions.
C27_NoDuplicateLabel ==
    p_pc = "text_parsed" =>
        /\ DuplicateLabel(p_text) => p_ret.tag # "Ok"
        /\ p_ret.tag = "Ok" =>
              \A i, j \in 0 .. (parser.instruction_number - 1) :
                  (i < j /\ parser.parsed[i].label.some
                         /\ parser.parsed[j].label.some)
                  => parser.parsed[i].label.str # parser.parsed[j].label.str

\* what a line of a number text is: a number up to 999, nothing but white
\* space in front of any comment, or neither
NumberText(line) == trim(BeforeComment(line))

IsBlankLine(line) == Blank(BeforeComment(line))

IsNumberLine(line) ==
    /\ AllDigits(NumberText(line))
    /\ Decimal(NumberText(line)) <= 999

IsBadLine(line) == ~IsBlankLine(line) /\ ~IsNumberLine(line)

\* C29: assemble_from_text stores the value of the k-th numeric line at
\* address k - 1, blank and comment lines taking no address, leaves every
\* other cell 0, and fails at the first malformed or too large number with
\* that line's position counted from 1 and no memory.
C29_NumbersInOrder ==
    a_pc = "numbers_done" =>
        LET ls == lines(a_text)
            bad == {k \in 1 .. Len(ls) : IsBadLine(ls[k])}
            numeric == SelectSeq(ls, IsNumberLine)
        IN  IF bad = {}
            THEN /\ a_ret.tag = "Ok"
                 /\ \A a \in 0 .. 99 :
                       a_ret.memory[a] =
                           IF a < Len(numeric)
                           THEN Decimal(NumberText(numeric[a + 1]))
                           ELSE 0
            ELSE /\ a_ret.tag \in {"InvalidNumber", "TooLarge"}
                 /\ a_ret.at = CHOOSE k \in bad : \A j \in bad : k <= j
                 /\ a_ret.memory = <<>>

\* C30: a text of lines that are blank once the comment is taken off
\* (empty, spaces or tabs only, white space and then a comment) assembles
\* without error and without a cell written.
C30_BlankLinesSkipped ==
    (/\ a_pc = "numbers_done"
     /\ \A k \in 1 .. Len(lines(a_text)) : IsBlankLine(lines(a_text)[k]))
    => /\ a_ret.tag = "Ok"
       /\ \A a \in 0 .. 99 : a_ret.memory[a] = 0

\* the base op code the claim gives each mnemonic that takes an address
BaseOpcode(mnemonic) ==
    CASE mnemonic = <<"A", "D", "D">> -> 100
      [] mnemonic = <<"S", "U", "B">> -> 200
      [] mnemonic \in {<<"S", "T", "O">>, <<"S", "T", "A">>} -> 300
      [] mnemonic = <<"L", "D", "A">> -> 500
      [] mnemonic \in {<<"B", "R">>, <<"B", "R", "A">>} -> 600
      [] mnemonic = <<"B", "R", "Z">> -> 700
      [] mnemonic = <<"B", "R", "P">> -> 800

TakesAddress(mnemonic) ==
    mnemonic \in OperandMnemonics \ {<<"D", "A", "T">>}

\* the mnemonic and the operand of an instruction line, in upper case
MnemonicOf(line) == UpperWord(Head(BodyOf(WordsOf(line))))

OperandOf(line) == UpperWord(BodyOf(WordsOf(line))[2])

HasOperand(line) == Len(BodyOf(WordsOf(line))) >= 2

\* the instruction lines, counted from 0, whose label is the name
DefinedAt(code, name) ==
    {k \in 0 .. (Len(code) - 1) :
        /\ ~IsMnemonic(WordsOf(code[k + 1])[1])
        /\ UpperWord(WordsOf(code[k + 1])[1]) = name}

\* the word the claim gives the instruction line
EncodedAs(code, line, word) ==
    LET mnemonic == MnemonicOf(line)
    IN  IF TakesAddress(mnemonic)
        THEN /\ HasOperand(line)
             /\ word - BaseOpcode(mnemonic) \in 0 .. 99
             /\ AllDigits(OperandOf(line)) =>
                    word = BaseOpcode(mnemonic) + Decimal(OperandOf(line))
             /\ DefinedAt(code, OperandOf(line)) # {} =>
                    word - BaseOpcode(mnemonic)
                        \in DefinedAt(code, OperandOf(line))
        ELSE IF mnemonic = <<"D", "A", "T">>
        THEN /\ HasOperand(line)
             /\ AllDigits(OperandOf(line)) =>
                    word = Decimal(OperandOf(line))
        ELSE IF mnemonic \in {<<"I", "N">>, <<"I", "N", "P">>}
        THEN word = 901
        ELSE IF mnemonic = <<"O", "U", "T">> THEN word = 902
        ELSE mnemonic = <<"H", "L", "T">> => word = 0

\* a number the claim has refused: an address of 100 or more, or a DAT
\* over 999
OverLimit(line) ==
    LET words == WordsOf(line)
    IN  /\ MnemonicShape(words)
        /\ HasOperand(line)
        /\ AllDigits(OperandOf(line))
        /\ \/ TakesAddress(MnemonicOf(line))
                  /\ Decimal(OperandOf(line)) >= 100
           \/ MnemonicOf(line) = <<"D", "A", "T">>
                  /\ Decimal(OperandOf(line)) > 999

C31_LimitCountsNumbers ==
    a_pc = "numbers_done" =>
        LET ls == lines(a_text)
            numeric == {k \in 1 .. Len(ls) : IsNumberLine(ls[k])}
        IN  /\ (Cardinality(numeric) = 100
                    /\ \A k \in 1 .. Len(ls) : ~IsBadLine(ls[k]))
               => a_ret.tag = "Ok"
            /\ a_ret.tag = "TooManyNumbers" =>
                  /\ a_ret.at \in numeric
                  /\ Cardinality({k \in numeric : k < a_ret.at}) = 100

(* ------------------------------------------------------------------ *)
(* The Fibonacci example                                               *)
(* ------------------------------------------------------------------ *)

\* the cycle budget of the Fibonacci test
FibMaxCycles == 1000

\* the image of examples/fib_num.txt
FibProgram ==
    <<605, 0, 1, 0, 100, 501, 102, 902, 303, 502, 301, 503, 302, 204, 816,
      605>>

FibImage ==
    [a \in Addresses |-> IF a < Len(FibProgram) THEN FibProgram[a + 1] ELSE 0]

\* the outputs the Fibonacci test expects
FibOutputs == <<1, 2, 3, 5, 8, 13, 21, 34, 55, 89, 144>>

FibTest ==
    [max_cycles |-> FibMaxCycles, inputs |-> <<>>, outputs |-> FibOutputs,
     char_inputs |-> <<>>, char_outputs |-> <<>>]

\* the image is loaded; it is either run under the test or driven by hand
FibInit ==
    /\ computer = new(FibImage)
    /\ last_op = "new"
    /\ pre_state = "None"
    /\ result = "None"
    /\ io_val = 0
    /\ run_pc = "idle"
    /\ run_ret = "None"
    /\ nsteps = 0
    /\ CodecIdle
    /\ ParserIdle
    /\ AssemblerIdle
    /\ test = FibTest
    /\ t_script = test
    /\ cycles = 0
    /\ t_pc \in {"call", "drive"}
    /\ t_ret = NoRet
    /\ t_fed = <<>>
    /\ t_got = <<>>
    /\ t_steps = 0

\* a caller's `computer.step()` while the computer runs
FibStep ==
    /\ t_pc = "drive"
    /\ computer.state = "Running"
    /\ t_steps < FibMaxCycles
    /\ computer' = step(computer)
    /\ t_steps' = t_steps + 1
    /\ UNCHANGED <<test, cycles, t_pc, t_ret, t_fed, t_got, test_frame>>

\* a caller's `computer.output()` once the computer awaits it
FibOutput ==
    /\ t_pc = "drive"
    /\ computer.state = "AwaitingOutput"
    /\ computer' = output(computer).c
    /\ t_got' = Append(t_got, computer.register)
    /\ UNCHANGED <<test, cycles, t_pc, t_ret, t_fed, t_steps, test_frame>>

FibNext ==
    \/ TestRunEnter
    \/ TestRunIter
    \/ FibStep
    \/ FibOutput

SpecFib == FibInit /\ [][FibNext]_vars

\* C32: the Fibonacci image outputs 1, 2, 3, 5, 8, 13, 21, 34, 55, 89, 144
\* in that order and nothing else, halts within fewer than 1000 steps
\* with memory[1] = 89, memory[2] = 144 and memory[3] = 144, and the test
\* that expects those outputs within 1000 cycles passes.
C32_Fibonacci ==
    /\ IsPrefix(t_got, FibOutputs)
    /\ t_steps < FibMaxCycles
    /\ computer.state \in {"Running", "AwaitingOutput", "Halted"}
    /\ computer.state = "Halted" =>
          /\ t_got = FibOutputs
          /\ computer.memory[1] = 89
          /\ computer.memory[2] = 144
          /\ computer.memory[3] = 144
          /\ \A a \in Addresses \ {1, 2, 3} : computer.memory[a] = FibImage[a]
    /\ t_pc = "done" => t_ret.tag = "Ok" /\ computer.state = "Halted"

\* the test has passed: all eleven outputs were taken and the computer
\* halted
C32_Witness ==
    /\ t_pc = "done"
    /\ t_ret.tag = "Ok"
    /\ computer.state = "Halted"
    /\ t_got = FibOutputs
    /\ computer.memory[1] = 89

(* ------------------------------------------------------------------ *)
(* The counter setter                                                  *)
(* ------------------------------------------------------------------ *)

\* Computer::set_counter
set_counter(c, value) ==
    IF value > 100
    THEN [c |-> c, r |-> "TooLarge"]
    ELSE [c |-> [c EXCEPT !.counter = value], r |-> "Ok"]

\* the values a caller hands to set_counter
CounterValues == {0, 1, 98, 99, 100, 101, 102}

\* `Computer::set_counter(&mut computer, value)`
SetCounter ==
    \E value \in CounterValues :
        /\ Free
        /\ computer' = set_counter(computer, value).c
        /\ result' = set_counter(computer, value).r
        /\ last_op' = "set_counter"
        /\ pre_state' = computer.state
        /\ io_val' = value
        /\ UNCHANGED <<run_pc, run_ret, nsteps, not_computer>>

CounterNext ==
    \/ Step
    \/ SetCounter

SpecCounter == Init /\ [][CounterNext]_vars

\* C34: set_counter refuses every value above 99 with TooLarge and leaves
\* the counter as it was, and sets the counter to any other value; the
\* counter is never set to 100.
C34_SetCounter ==
    [][last_op' = "set_counter" =>
          IF io_val' > 99
          THEN result' = "TooLarge" /\ computer' = computer
          ELSE result' = "Ok" /\ computer'.counter = io_val'
                 /\ computer' = [computer EXCEPT !.counter = io_val']]_vars

\* the memory indices the next call of step uses: the fetch at the counter
\* and, for ADD, SUB, STO and LDA, the operand access at the address
Accesses(c) ==
    IF c.state # "Running" \/ c.counter = MemLen THEN {}
    ELSE LET instruction == c.memory[c.counter]
         IN  {c.counter} \cup
                 (IF instruction \div OpDiv \in {1, 2, 3, 5}
                  THEN {instruction % OpDiv} ELSE {})

\* C35: in every state reached from Computer::new by step, input, output,
\* input_char, output_char and reset the counter is within 0..100, the
\* register and every memory cell within 0..999, every fetch and operand
\* access of the next step is at an index within 0..99, and a step taken
\* with the counter at 100 changes nothing but the state, which becomes
\* ReachedEnd.
C35_StateInvariant ==
    /\ [](/\ computer.counter \in 0 .. 100
          /\ computer.register \in 0 .. 999
          /\ \A a \in Addresses : computer.memory[a] \in 0 .. 999
          /\ Accesses(computer) \subseteq 0 .. 99)
    /\ [][(last_op' = "step" /\ computer.state = "Running"
             /\ computer.counter = 100)
          => computer' = [computer EXCEPT !.state = "ReachedEnd"]]_vars

\* a step found the counter at 100 and ended the run
C35_Witness ==
    /\ last_op = "step"
    /\ pre_state = "Running"
    /\ computer.state = "ReachedEnd"
    /\ computer.counter = 100
    /\ computer.register > 0

\* Test::run runs to its end: the loop is code of one thread and every
\* turn of it is taken
SpecTestFair == TestInit /\ [][TestNext]_vars /\ WF_vars(TestNext)

\* C36: Test::run terminates for every program, script and budget: the
\* cycle count never passes max_cycles, every turn of the loop either
\* ends the run (with an error or because the program is done) or raises
\* the count by exactly one, and a turn that finds the count at
\* max_cycles ends the run with RunOutOfCycles and leaves the computer
\* alone.
C36_RunTerminates ==
    /\ <>(t_pc = "done")
    /\ [](cycles <= test.max_cycles)
    /\ [][t_pc = "loop" =>
             \/ /\ t_pc' = "done"
                /\ t_ret'.tag # "None"
                /\ cycles' \in {cycles, cycles + 1}
             \/ /\ t_pc' = "loop"
                /\ cycles' = cycles + 1]_vars
    /\ [][(t_pc = "loop" /\ cycles = test.max_cycles) =>
             /\ t_pc' = "done"
             /\ t_ret'.tag = "RunOutOfCycles"
             /\ computer' = computer]_vars

\* a program that was still running when the budget was spent
C36_Witness ==
    /\ t_pc = "done"
    /\ t_ret.tag = "RunOutOfCycles"
    /\ cycles = MaxCycles
    /\ test.max_cycles = MaxCycles
    /\ computer.state = "Running"
    /\ computer.counter = 0

\* C37: while a Test drives a Computer none of the expect() calls of
\* Test::step fails (input, output, input_char and output_char are called
\* only in the matching awaiting state); after a Test::step that returns
\* Ok(false) the computer is Running and after one that returns Ok(true)
\* it is Halted or ReachedEnd.
C37_Handshake ==
    /\ [](t_ret.tag # "Panic")
    /\ [][t_pc = "loop" =>
             LET r == test_step(computer, test, cycles)
             IN  /\ r.err.tag # "Panic"
                 /\ (r.err.tag = "None" /\ ~r.done) =>
                        /\ t_pc' = "loop"
                        /\ computer'.state = "Running"
                 /\ (r.err.tag = "None" /\ r.done) =>
                        /\ t_pc' = "done"
                        /\ computer'.state \in {"Halted", "ReachedEnd"}]_vars

\* a scripted input and an expected output were both exchanged and the
\* program ended
C37_Witness ==
    /\ t_pc = "done"
    /\ t_ret.tag = "Ok"
    /\ Len(t_fed) >= 1
    /\ Len(t_got) >= 1
    /\ computer.state \in {"Halted", "ReachedEnd"}

\* C38: the negative flag changes only in a step that executes SUB, which
\* sets it to register < memory[address], and in reset, which clears it:
\* every other instruction and input, output, input_char and output_char
\* leave it as it was, also when they overwrite the register, so BRP
\* branches on the outcome of the last SUB.
C38_NegativeFlagFrame ==
    [][/\ (Executes /\ Opcode = 2) =>
              computer'.negative_flag =
                  (computer.register < computer.memory[Addr])
       /\ last_op' = "reset" => ~computer'.negative_flag
       /\ (~(Executes /\ Opcode = 2) /\ last_op' # "reset") =>
              computer'.negative_flag = computer.negative_flag
       /\ (Executes /\ Opcode = 8) =>
              computer'.counter =
                  IF computer.negative_flag THEN computer.counter + 1
                  ELSE Addr]_vars

\* SUB 1 set the flag (0 - 501), then LDA 1 reloaded the register: the
\* flag is still set
C38_Witness ==
    /\ last_op = "step"
    /\ computer.memory[0] = 201
    /\ computer.memory[1] = 501
    /\ computer.counter = 2
    /\ computer.negative_flag
    /\ computer.register = 501
    /\ computer.state = "Running"

\* bit j (0 the most significant) of a ten-bit word
WordBit(word, j) == (word \div (2 ^ (9 - j))) % 2

\* bit n (0 the first) of the bytes of B read most significant bit first,
\* absent bytes being zero
StreamBit(B, n) == (ByteAt(B, n \div 8) \div (2 ^ (7 - (n % 8)))) % 2

\* C39: the buffer is the big-endian concatenation of 100 ten-bit fields:
\* bit j of word i is bit (10 i + j) mod 8, counted from the most
\* significant, of byte (10 i + j) div 8. save_to_buffer writes this
\* layout and load_from_buffer reads it; the image of all-1 words packs to
\* 125 bytes, byte k being 1 << (8 - 2 (k mod 5)) when k mod 5 is not 0
\* and 0 otherwise, and the 125 bytes with only the top bit of every field
\* set load as 100 words of 512.
C39_BitLayout ==
    /\ cd_pc \in {"saved", "reloaded", "repadded"} =>
          /\ \A i \in 0 .. 99 : \A j \in 0 .. 9 :
                 StreamBit(cd_buffer, 10 * i + j) = WordBit(cd_memory[i], j)
          /\ cd_memory = AllOnes =>
                 /\ Len(cd_buffer) = 125
                 /\ \A k \in 0 .. 124 :
                        cd_buffer[k + 1] =
                            IF k % 5 # 0 THEN 2 ^ (8 - 2 * (k % 5)) ELSE 0
    /\ (cd_pc \in {"loaded", "padded"} /\ cd_loaded.tag = "Ok") =>
          /\ \A i \in 0 .. 99 : \A j \in 0 .. 9 :
                 WordBit(cd_loaded.memory[i], j) =
                     StreamBit(cd_buffer, 10 * i + j)
          /\ cd_buffer = TopBits =>
                 \A i \in 0 .. 99 : cd_loaded.memory[i] = 512

\* the buffer with the top bit of every field loaded as 100 words of 512
C39_Witness ==
    /\ cd_pc = "loaded"
    /\ cd_buffer = TopBits
    /\ cd_loaded.tag = "Ok"
    /\ cd_loaded.memory[0] = 512
    /\ cd_loaded.memory[99] = 512

\* the state of load_from_buffer's loop at the start of the pass for
\* the byte at `index`, with whether every access of the earlier passes
\* was inside `memory`; a pass is followed only while that is so
LoadCursor(st, safe) == [st |-> st, safe |-> safe]

\* the accesses of one pass: memory[address] for the lower part; the
\* address after `address += 1` for the upper part; `address -= 1` at
\* the wrap of the offset, on an unsigned address
LoadPassSafe(st, index) ==
    LET address2 == IF index # 0 THEN st.address + 1 ELSE st.address
    IN  /\ st.address \in 0 .. 99
        /\ address2 \in 0 .. 99
        /\ st.offset + 2 = 10 => address2 - 1 >= 0

RECURSIVE LoadCursorLoop(_, _, _, _)
LoadCursorLoop(buffer, lo, hi, cur) ==
    IF lo >= hi \/ ~cur.safe \/ cur.st.ret.tag # "Ok" THEN cur
    ELSE IF hi = lo + 1
    THEN IF LoadPassSafe(cur.st, lo)
         THEN LoadCursor(LoadBody(cur.st, lo, buffer[lo + 1]), TRUE)
         ELSE LoadCursor(cur.st, FALSE)
    ELSE LET mid == (lo + hi) \div 2
             first == LoadCursorLoop(buffer, lo, mid, cur)
         IN  IF first.safe
             THEN LoadCursorLoop(buffer, mid, hi, first)
             ELSE first

\* every access of load_from_buffer(buffer) is inside `memory`
LoadSafe(buffer) ==
    Len(buffer) <= MAX_FILE_SIZE =>
        LoadCursorLoop(buffer, 0, Len(buffer),
                       LoadCursor([memory |-> ZeroMemory, address |-> 0,
                                   offset |-> 2, ret |-> LoadOk(ZeroMemory)],
                                  TRUE)).safe

\* the accesses of one pass of save_to_buffer: buffer[index] and, after
\* `index += 1`, buffer[index]
SavePassSafe(st) == st.index \in 0 .. 124 /\ st.index + 1 \in 0 .. 124

RECURSIVE SaveCursorLoop(_, _, _, _)
SaveCursorLoop(memory, lo, hi, cur) ==
    IF lo >= hi \/ ~cur.safe THEN cur
    ELSE IF hi = lo + 1
    THEN IF SavePassSafe(cur.st)
         THEN LoadCursor(SaveBody(cur.st, memory[lo]), TRUE)
         ELSE LoadCursor(cur.st, FALSE)
    ELSE LET mid == (lo + hi) \div 2
             first == SaveCursorLoop(memory, lo, mid, cur)
         IN  IF first.safe
             THEN SaveCursorLoop(memory, mid, hi, first)
             ELSE first

\* every access of save_to_buffer(buffer, memory) is inside `buffer`
SaveSafe(memory) ==
    SaveCursorLoop(memory, 0, MemLen,
                   LoadCursor([buffer |-> ZeroBuffer, index |-> 0,
                               offset |-> 2], TRUE)).safe

\* C40: for every buffer of at most 125 bytes every memory access of
\* load_from_buffer is at an address within 0..99 and the address is not
\* below 1 when the wrap of the offset decrements it; every buffer access
\* of save_to_buffer is at an index within 0..124.
C40_CursorSafety ==
    /\ cd_pc \in {"loaded", "padded", "reloaded", "repadded"} =>
          LoadSafe(cd_buffer)
    /\ cd_pc \in {"padded", "repadded"} =>
          LoadSafe(cd_buffer \o Zeros(MAX_FILE_SIZE - Len(cd_buffer)))
    /\ cd_pc \in {"saved", "reloaded", "repadded"} => SaveSafe(cd_memory)

\* a buffer of 125 bytes whose last byte is not zero was loaded: the last
\* pass wrote memory[99]
C40_Witness ==
    /\ cd_pc = "loaded"
    /\ Len(cd_buffer) = 125
    /\ cd_buffer[125] = 255
    /\ cd_loaded.tag = "Ok"
    /\ cd_loaded.memory[99] = 255

(* ------------------------------------------------------------------ *)
(* lib/runner.rs: the legacy runner, no tester attached                *)
(* ------------------------------------------------------------------ *)

\* i16::MAX + 1
I16Half == 32768

\* u16::MAX + 1
U16Range == 65536

\* `x as i16` of a u16
as_i16(x) == IF x >= I16Half THEN x - U16Range ELSE x

\* `x as u16` of an i16
as_u16(x) == (x + U16Range) % U16Range

\* `x % n` of signed integers: the remainder has the sign of x
rem(x, n) == IF x >= 0 THEN x % n ELSE 0 - ((0 - x) % n)

\* runner::Computer::new: Default with the memory given
runner_new(memory) ==
    [state |-> "Running",
     memory |-> memory,
     counter |-> 0,
     register |-> 0,
     negative_flag |-> FALSE,
     extended_mode |-> FALSE,
     tester |-> "None"]

\* what one call of runner::step leaves and returns
RunnerOut(c, r) == [c |-> c, r |-> r]

\* an arithmetic overflow panics in a build with overflow checks and
\* wraps in one without
Overflowing(fits, c, wrapped) ==
    IF fits THEN {RunnerOut(wrapped, "Ok")}
    ELSE {RunnerOut(c, "Panic"), RunnerOut(wrapped, "Ok")}

\* ADD
runner_add(c, address) ==
    LET sum == c.register + c.memory[address]
    IN  Overflowing(sum < U16Range, c,
                    [c EXCEPT !.register = (sum % U16Range) % Radix])

\* SUBTRACT
runner_subtract(c, address) ==
    LET difference == as_i16(c.register) - as_i16(c.memory[address])
        wrapped == as_i16(as_u16(difference))
    IN  Overflowing(difference = wrapped, c,
                    [c EXCEPT
                        !.negative_flag = c.register < c.memory[address],
                        !.register = as_u16(rem(wrapped, Radix))])

\* a line read from stdin: a number that parses, or not
StdinReads == {[ok |-> TRUE, value |-> 7], [ok |-> TRUE, value |-> 1000],
               [ok |-> FALSE, value |-> 0]}

\* `9 => match instruction % 100` without a tester: c has the counter
\* already incremented
runner_io(c, data, read) ==
    LET bad == RunnerOut([c EXCEPT !.counter = @ - 1], "BadInput")
    IN  CASE data = 1 ->
                 IF read.ok /\ read.value <= MaxNumber
                 THEN RunnerOut([c EXCEPT !.register = read.value], "Ok")
                 ELSE bad
          [] data = 11 /\ c.extended_mode ->
                 IF read.ok
                 THEN RunnerOut([c EXCEPT
                                    !.register = read.value % ByteRange],
                                "Ok")
                 ELSE bad
          [] OTHER -> RunnerOut(c, "Ok")

\* runner::step on a computer whose tester is None: the outcomes the call
\* can have
runner_step(c, read) ==
    IF c.state # "Running" THEN {RunnerOut(c, "Done")}
    ELSE IF c.counter > 99
    THEN {RunnerOut([c EXCEPT !.state = "ReachedEnd"], "Ok")}
    ELSE
    LET instruction == c.memory[c.counter]
        c1 == [c EXCEPT !.counter = @ + 1]
        op == instruction \div 100
        data == instruction % 100
    IN  CASE op = 0 /\ c1.counter = 1 /\ instruction = 10 ->
                 {RunnerOut([c1 EXCEPT !.extended_mode = TRUE], "Ok")}
          [] op = 0 /\ ~(c1.counter = 1 /\ instruction = 10) ->
                 {RunnerOut([c1 EXCEPT !.state = "Halted"], "Ok")}
          [] op = 1 -> runner_add(c1, data)
          [] op = 2 -> runner_subtract(c1, data)
          [] op = 3 ->
                 {RunnerOut([c1 EXCEPT !.memory[data] = c1.register], "Ok")}
          [] op = 5 ->
                 {RunnerOut([c1 EXCEPT !.register = c1.memory[data]], "Ok")}
          [] op = 6 -> {RunnerOut([c1 EXCEPT !.counter = data], "Ok")}
          [] op = 7 ->
                 {RunnerOut(IF c1.register = 0
                            THEN [c1 EXCEPT !.counter = data] ELSE c1, "Ok")}
          [] op = 8 ->
                 {RunnerOut(IF ~c1.negative_flag
                            THEN [c1 EXCEPT !.counter = data] ELSE c1, "Ok")}
          [] op = 9 -> {runner_io(c1, data, read)}
          [] OTHER ->
                 {RunnerOut([c1 EXCEPT !.counter = @ - 1],
                            "InvalidInstruction")}

(* ------------------------------------------------------------------ *)
(* Behaviours: a caller of the legacy runner                           *)
(* ------------------------------------------------------------------ *)

\* the words of a legacy program: every op code on the cells 98 and 99
LegacyWords ==
    {0, 10, 198, 199, 298, 299, 398, 400, 598, 599, 600, 798, 898,
     901, 902, 911, 912}

\* programs with 5 in cell 98 and 10 in cell 99
LegacyImages ==
    {[a \in Addresses |->
        IF a < ProgLen THEN p[a + 1]
        ELSE IF a = 98 THEN 5
        ELSE IF a = 99 THEN 10 ELSE 0] :
     p \in [1 .. ProgLen -> LegacyWords]}

LegacyInit ==
    /\ computer \in {runner_new(m) : m \in LegacyImages}
    /\ last_op = "new"
    /\ pre_state = "None"
    /\ result = "None"
    /\ io_val = 0
    /\ run_pc = "idle"
    /\ run_ret = "None"
    /\ nsteps = 0
    /\ CodecIdle
    /\ TestIdle
    /\ ParserIdle
    /\ AssemblerIdle

\* `step(&mut computer)`
LegacyStep ==
    \E read \in StdinReads : \E out \in runner_step(computer, read) :
        /\ nsteps < MaxSteps
        /\ computer' = out.c
        /\ result' = out.r
        /\ last_op' = "runner_step"
        /\ pre_state' = computer.state
        /\ io_val' = 0
        /\ nsteps' = nsteps + 1
        /\ UNCHANGED <<run_pc, run_ret, not_computer>>

SpecLegacy == LegacyInit /\ [][LegacyStep]_vars

\* C33: in the legacy runner a SUB word sets negative_flag to
\* register < memory[address] and the register to
\* (register - memory[address] + 1000) mod 1000, so the register stays
\* within 0..999 (5 - 10 leaves 995).
C33_LegacySubWraps ==
    /\ [](computer.register \in 0 .. 999)
    /\ [][(computer.state = "Running" /\ computer.counter <= 99
             /\ nsteps' = nsteps + 1
             /\ computer.memory[computer.counter] \div 100 = 2) =>
            LET address == computer.memory[computer.counter] % 100
            IN  /\ result' = "Ok"
                /\ computer'.negative_flag =
                       (computer.register < computer.memory[address])
                /\ computer'.register =
                       (computer.register - computer.memory[address] + 1000)
                           % 1000]_vars

====
